---- MODULE Spec2Model ----
(***************************************************************************)
(* A model of the generals-rs game server: the board (Grid, Tile, Map),    *)
(* the Game built on it, the per-client ConnectionProxy and the ActiveGame *)
(* runner that ticks the game.                                             *)
(*                                                                         *)
(* Option<PlayerId> is modelled as a player id or NoPlayer, Option<usize>  *)
(* (an index, a turn) as a natural number or NoIndex / NoTurn.             *)
(***************************************************************************)
EXTENDS Integers, Sequences, FiniteSets, TLC

\* ------------------------------------------------------------------ bounds

\* Board dimensions of the two-player games explored (GridBuilder::new draws
\* larger ones).
Width == 3
Height == 1
\* Separation of the generals on the boards explored (MIN_DISTANCE, scaled to
\* the board).
MinDistance == 1
\* Game::incr_turn is not taken beyond this turn.
MaxTurn == 6

\* -------------------------------------------------------------- constants

NoPlayer == -1
NoIndex == -1
NoTurn == -1
\* Tile.units is a u16.
U16 == 65536

Directions == {"Right", "Left", "Up", "Down"}

\* ------------------------------------------------------------------- Grid
\* A grid is a record with the fields width and height (and tiles, when it
\* is a map).

len(g) == g.width * g.height

is_valid_index(g, i) == i >= 0 /\ i < g.width * g.height

column(g, i) == i % g.width

line(g, i) == i \div g.width

index(g, c, l) == c + l * g.width

up_left(g, i) ==
    IF ~is_valid_index(g, i) THEN NoIndex
    ELSE IF column(g, i) = 0 \/ line(g, i) = 0 THEN NoIndex
    ELSE index(g, column(g, i) - 1, line(g, i) - 1)

up(g, i) ==
    IF ~is_valid_index(g, i) THEN NoIndex
    ELSE IF line(g, i) = 0 THEN NoIndex
    ELSE index(g, column(g, i), line(g, i) - 1)

up_right(g, i) ==
    IF ~is_valid_index(g, i) THEN NoIndex
    ELSE IF column(g, i) = g.width - 1 \/ line(g, i) = 0 THEN NoIndex
    ELSE index(g, column(g, i) + 1, line(g, i) - 1)

left(g, i) ==
    IF ~is_valid_index(g, i) THEN NoIndex
    ELSE IF column(g, i) = 0 THEN NoIndex
    ELSE index(g, column(g, i) - 1, line(g, i))

\* A right that goes on to the next line from the last column.
right_wrapping(g, i) ==
    IF ~is_valid_index(g, i) THEN NoIndex
    ELSE IF ~is_valid_index(g, i + 1) THEN NoIndex
    ELSE i + 1

right(g, i) ==
    IF ~is_valid_index(g, i) THEN NoIndex
    ELSE IF column(g, i) = g.width - 1 THEN NoIndex
    ELSE index(g, column(g, i) + 1, line(g, i))

down_left(g, i) ==
    IF ~is_valid_index(g, i) THEN NoIndex
    ELSE IF column(g, i) = 0 \/ line(g, i) = g.height - 1 THEN NoIndex
    ELSE index(g, column(g, i) - 1, line(g, i) + 1)

down(g, i) ==
    IF ~is_valid_index(g, i) THEN NoIndex
    ELSE IF line(g, i) = g.height - 1 THEN NoIndex
    ELSE index(g, column(g, i), line(g, i) + 1)

down_right(g, i) ==
    IF ~is_valid_index(g, i) THEN NoIndex
    ELSE IF column(g, i) = g.width - 1 \/ line(g, i) = g.height - 1
    THEN NoIndex
    ELSE index(g, column(g, i) + 1, line(g, i) + 1)

\* The iterators skip the None entries and keep the order of the array.
SkipNone(s) == SelectSeq(s, LAMBDA x : x # NoIndex)

direct_neighbors(g, i) ==
    SkipNone(<<up(g, i), left(g, i), right(g, i), down(g, i)>>)

extended_neighbors(g, i) ==
    SkipNone(<<up_left(g, i), up(g, i), up_right(g, i), left(g, i),
               right(g, i), down_left(g, i), down(g, i), down_right(g, i)>>)

Abs(x) == IF x < 0 THEN -x ELSE x

manhattan_distance(g, i1, i2) ==
    Abs(column(g, i1) - column(g, i2)) + Abs(line(g, i1) - line(g, i2))

Range(s) == {s[k] : k \in 1 .. Len(s)}

Indices(g) == 0 .. (len(g) - 1)

\* ------------------------------------------------------------------- Tile

Tile_new ==
    [owner |-> NoPlayer, units |-> 0, kind |-> "Mountain",
     visible_by |-> {}, dirty_for |-> {}]

is_mountain(t) == t.kind = "Mountain"

is_general(t) == t.kind = "General"

is_city(t) == t.kind = "City"

is_visible_by(t, p) == p \in t.visible_by

\* A hide_from that hides nothing.
hide_from_nothing(t, p) == t

hide_from(t, p) ==
    IF p \in t.visible_by
    THEN [t EXCEPT !.visible_by = @ \ {p}, !.dirty_for = @ \cup {p}]
    ELSE t

\* A reveal_to that does not mark the tile dirty.
reveal_to_quiet(t, p) == [t EXCEPT !.visible_by = @ \cup {p}]

reveal_to(t, p) ==
    [t EXCEPT !.visible_by = @ \cup {p}, !.dirty_for = @ \cup {p}]

\* A set_dirty that marks nothing.
set_dirty_nothing(t) == t

set_dirty(t) == [t EXCEPT !.dirty_for = @ \cup t.visible_by]

\* A set_clean that leaves the tile dirty.
set_clean_nothing(t) == t

set_clean(t) == [t EXCEPT !.dirty_for = {}]

is_dirty(t) == t.dirty_for # {}

is_dirty_for(t, player_id) == player_id \in t.dirty_for

make_open(t) == set_dirty([t EXCEPT !.kind = "Open"])

make_general(t) == set_dirty([t EXCEPT !.kind = "General"])

make_mountain(t) == set_dirty([t EXCEPT !.kind = "Mountain"])

\* Update::filtered calls is_fortress and make_wall, which the Tile of
\* common.rs does not define: a stronghold that is no general is a City, and
\* it is turned into a Mountain.
is_fortress(t) == is_city(t)

make_wall(t) == set_dirty([t EXCEPT !.kind = "Mountain"])

set_units(t, units) ==
    IF is_mountain(t) THEN t
    ELSE set_dirty([t EXCEPT !.units = units])

incr_units(t, n) ==
    IF is_mountain(t) THEN t
    ELSE set_dirty([t EXCEPT !.units = (@ + n) % U16])

set_owner(t, p) ==
    IF is_mountain(t) THEN t
    ELSE LET d == set_dirty(t)
             o == IF d.owner # NoPlayer
                  THEN [d EXCEPT !.dirty_for = @ \cup {d.owner}]
                  ELSE d
             w == [o EXCEPT !.owner = p]
         IN  IF p # NoPlayer THEN reveal_to(w, p) ELSE w

\* MoveOutcome
StatuQuo == [kind |-> "StatuQuo", player |-> NoPlayer]
TileCaptured(p) == [kind |-> "TileCaptured", player |-> p]
GeneralCaptured(p) == [kind |-> "GeneralCaptured", player |-> p]
NoOutcome == [kind |-> "None", player |-> NoPlayer]

\* An early return that has marked the tiles dirty already.
AttackErr_dirty(e, src, dst) ==
    [err |-> e, src |-> set_dirty(src), dst |-> set_dirty(dst),
     outcome |-> NoOutcome]

AttackErr(e, src, dst) ==
    [err |-> e, src |-> src, dst |-> dst, outcome |-> NoOutcome]

\* Checks that do not look at the destination.
attack_check_src_only(src, dst) ==
    IF is_mountain(src) THEN "FromInvalidTile"
    ELSE IF src.units < 2 THEN "NotEnoughUnits"
    ELSE IF src.owner = NoPlayer THEN "SourceTileNotOwned"
    ELSE "Ok"

\* Checks that look at the units of the source first.
attack_check_units_first(src, dst) ==
    IF src.units < 2 THEN "NotEnoughUnits"
    ELSE IF is_mountain(src) THEN "FromInvalidTile"
    ELSE IF is_mountain(dst) THEN "ToInvalidTile"
    ELSE IF src.owner = NoPlayer THEN "SourceTileNotOwned"
    ELSE "Ok"

\* The checks Tile::attack starts with: the InvalidMove it returns, or Ok.
attack_check(src, dst) ==
    IF is_mountain(src) THEN "FromInvalidTile"
    ELSE IF is_mountain(dst) THEN "ToInvalidTile"
    ELSE IF src.units < 2 THEN "NotEnoughUnits"
    ELSE IF src.owner = NoPlayer THEN "SourceTileNotOwned"
    ELSE "Ok"

\* An attack that takes every unit of the source along.
moved_units_all(src) == src.units

\* The units an attack moves: self.units - 1.
moved_units(src) == src.units - 1

\* Tile::attack: self is src. The result holds both tiles as the call leaves
\* them.
attack(src, dst) ==
    IF attack_check(src, dst) # "Ok"
    THEN AttackErr(attack_check(src, dst), src, dst)
    ELSE
      LET attacker == src.owner
          a == moved_units(src)
          r == IF dst.owner # NoPlayer /\ dst.owner # attacker
               THEN IF dst.units >= a
                    THEN [dst |-> [dst EXCEPT !.units = @ - a],
                          outcome |-> StatuQuo]
                    ELSE IF dst.kind = "General"
                    THEN [dst |-> [dst EXCEPT !.units = a - @,
                                              !.owner = attacker,
                                              !.kind = "City"],
                          outcome |-> GeneralCaptured(dst.owner)]
                    ELSE [dst |-> [dst EXCEPT !.units = a - @,
                                              !.owner = attacker],
                          outcome |-> TileCaptured(dst.owner)]
               ELSE IF dst.owner # NoPlayer
               THEN [dst |-> [dst EXCEPT !.units = (@ + a) % U16],
                     outcome |-> StatuQuo]
               ELSE IF dst.units >= a
                    THEN [dst |-> [dst EXCEPT !.units = @ - a],
                          outcome |-> StatuQuo]
                    ELSE [dst |-> [dst EXCEPT !.units = a - @,
                                              !.owner = attacker],
                          outcome |-> TileCaptured(NoPlayer)]
      IN  [err |-> "Ok",
           src |-> set_dirty([src EXCEPT !.units = 1]),
           dst |-> set_dirty(r.dst),
           outcome |-> r.outcome]

\* -------------------------------------------------------------------- Map
\* A map is the record [width, height, tiles], tiles: index -> Tile.

Move(p, f, d) == [player |-> p, from |-> f, direction |-> d]

SetTile(m, i, t) == [m EXCEPT !.tiles[i] = t]

owns_extended_neighbor(m, player, idx) ==
    \E k \in Range(extended_neighbors(m, idx)) : m.tiles[k].owner = player

RECURSIVE enlarge_loop(_, _, _)
enlarge_loop(m, player, s) ==
    IF s = <<>> THEN m
    ELSE LET i == Head(s)
             m1 == IF ~is_mountain(m.tiles[i])
                   THEN SetTile(m, i, reveal_to(m.tiles[i], player))
                   ELSE m
         IN  enlarge_loop(m1, player, Tail(s))

\* An enlarge_horizon that reveals nothing.
enlarge_horizon_nothing(m, player, idx) == m

enlarge_horizon(m, player, idx) ==
    enlarge_loop(m, player, extended_neighbors(m, idx))

RECURSIVE shrink_loop(_, _, _)
shrink_loop(m, player, s) ==
    IF s = <<>> THEN m
    ELSE LET i == Head(s)
             m1 == IF /\ ~is_mountain(m.tiles[i])
                      /\ is_visible_by(m.tiles[i], player)
                      /\ ~owns_extended_neighbor(m, player, i)
                   THEN SetTile(m, i, hide_from(m.tiles[i], player))
                   ELSE m
         IN  shrink_loop(m1, player, Tail(s))

\* A shrink_horizon that hides nothing.
shrink_horizon_keep(m, player, idx) == m

shrink_horizon(m, player, idx) ==
    shrink_loop(m, player, extended_neighbors(m, idx))

\* The GeneralCaptured branch of Map::perform_move: every iteration touches
\* its own tile only.
capture_general(m, defeated_player, attacker) ==
    [m EXCEPT !.tiles =
        [i \in DOMAIN m.tiles |->
            IF is_mountain(m.tiles[i]) THEN m.tiles[i]
            ELSE LET t1 == IF m.tiles[i].owner = defeated_player
                           THEN set_owner(m.tiles[i], attacker)
                           ELSE m.tiles[i]
                 IN  IF is_visible_by(t1, defeated_player)
                     THEN reveal_to(hide_from(t1, defeated_player), attacker)
                     ELSE t1]]

MoveErr(e, m) ==
    [err |-> e, map |-> m, outcome |-> NoOutcome, dst |-> NoIndex]

\* A source that any owner makes good for any player.
owned_by_mover_any(m, mv) == m.tiles[mv.from].owner # NoPlayer

\* Whether the source of the move is owned by the player making it.
owned_by_mover(m, mv) == m.tiles[mv.from].owner = mv.player

\* Map::perform_move. The result holds the map as the call leaves it.
Map_perform_move(m, mv) ==
    IF ~is_valid_index(m, mv.from) THEN MoveErr("FromInvalidTile", m)
    ELSE
      LET dst_idx == CASE mv.direction = "Right" -> right(m, mv.from)
                       [] mv.direction = "Left" -> left(m, mv.from)
                       [] mv.direction = "Up" -> up(m, mv.from)
                       [] mv.direction = "Down" -> down(m, mv.from)
      IN
      IF dst_idx = NoIndex THEN MoveErr("ToInvalidTile", m)
      ELSE IF m.tiles[mv.from].owner = NoPlayer
      THEN MoveErr("SourceTileNotOwned", m)
      ELSE IF ~owned_by_mover(m, mv)
      THEN MoveErr("SourceTileNotOwned", m)
      ELSE
        LET r == attack(m.tiles[mv.from], m.tiles[dst_idx])
            m1 == SetTile(SetTile(m, mv.from, r.src), dst_idx, r.dst)
        IN
        IF r.err # "Ok" THEN MoveErr(r.err, m1)
        ELSE
          LET m2 ==
                CASE r.outcome.kind = "GeneralCaptured" ->
                       capture_general(m1, r.outcome.player, mv.player)
                  [] r.outcome.kind = "TileCaptured" ->
                       enlarge_horizon(
                           IF r.outcome.player # NoPlayer
                           THEN shrink_horizon(m1, r.outcome.player, dst_idx)
                           ELSE m1,
                           mv.player, dst_idx)
                  [] OTHER -> m1
          IN  [err |-> "Ok", map |-> m2, outcome |-> r.outcome,
               dst |-> dst_idx]

\* A reinforce for which every round is a global one.
Map_reinforce_global(m, reinforce_all_tiles) ==
    [m EXCEPT !.tiles =
        [i \in DOMAIN m.tiles |->
            IF is_mountain(m.tiles[i]) THEN m.tiles[i]
            ELSE IF m.tiles[i].owner # NoPlayer \/ is_general(m.tiles[i])
            THEN incr_units(m.tiles[i], 1)
            ELSE m.tiles[i]]]

Map_reinforce(m, reinforce_all_tiles) ==
    [m EXCEPT !.tiles =
        [i \in DOMAIN m.tiles |->
            IF is_mountain(m.tiles[i]) THEN m.tiles[i]
            ELSE IF \/ (m.tiles[i].owner # NoPlayer /\ reinforce_all_tiles)
                    \/ is_general(m.tiles[i])
                    \/ (is_city(m.tiles[i]) /\ m.tiles[i].owner # NoPlayer)
            THEN incr_units(m.tiles[i], 1)
            ELSE m.tiles[i]]]

\* ------------------------------------------------------------------- Game

Player_new == [owned_tiles |-> 0, defeated_at |-> NoTurn]

defeated(pl) == pl.defeated_at # NoTurn

\* A can_move that lets every player move.
can_move_always(pl) == TRUE

can_move(pl) == ~defeated(pl) /\ pl.owned_tiles > 0

\* The loop of Game::new that spawns the players on the generals: generals
\* and ps are the zipped sequences.
\* A spawn that stops after the first player.
spawn_loop_first(m, generals, ps) ==
    IF generals = <<>> \/ ps = <<>> THEN m
    ELSE LET g == Head(generals)
             m1 == SetTile(m, g, set_owner(m.tiles[g], Head(ps)))
         IN  enlarge_horizon(m1, Head(ps), g)

RECURSIVE spawn_loop(_, _, _)
spawn_loop(m, generals, ps) ==
    IF generals = <<>> \/ ps = <<>> THEN m
    ELSE LET g == Head(generals)
             m1 == SetTile(m, g, set_owner(m.tiles[g], Head(ps)))
         IN  spawn_loop(enlarge_horizon(m1, Head(ps), g),
                        Tail(generals), Tail(ps))

\* A game is the record [map, players, turn].
Game_new(m, generals, ps) ==
    [map |-> spawn_loop(m, generals, ps),
     players |-> [p \in Range(ps) |->
                    [Player_new EXCEPT !.owned_tiles = 1]],
     turn |-> 0]

\* A resign that overwrites the turn of an earlier defeat.
Game_resign_overwrite(g, id) ==
    [g EXCEPT !.players[id].defeated_at = g.turn]

Game_resign(g, id) ==
    IF defeated(g.players[id]) THEN g
    ELSE [g EXCEPT !.players[id].defeated_at = g.turn]

\* Game::perform_move, with the result of Map::perform_move it swallows
\* ("Ignored" when the map is not called).
Game_perform_move(g, mv) ==
    IF mv.player \in DOMAIN g.players
    THEN IF ~can_move(g.players[mv.player])
         THEN [game |-> g, res |-> MoveErr("Ignored", g.map)]
         ELSE LET r == Map_perform_move(g.map, mv)
              IN  [game |-> [g EXCEPT !.map = r.map], res |-> r]
    ELSE [game |-> g, res |-> MoveErr("Ignored", g.map)]

\* A reinforce that runs on every turn.
Game_reinforce_every_turn(g) ==
    [g EXCEPT !.map = Map_reinforce(g.map, g.turn % 50 = 0)]

Game_reinforce(g) ==
    IF g.turn % 50 = 0 THEN [g EXCEPT !.map = Map_reinforce(g.map, TRUE)]
    ELSE IF g.turn % 2 = 0 THEN [g EXCEPT !.map = Map_reinforce(g.map, FALSE)]
    ELSE g

\* An incr_turn that reinforces by the old turn number, then increments it.
incr_turn_reinforce_first(g) == [Game_reinforce(g) EXCEPT !.turn = @ + 1]

incr_turn(g) == Game_reinforce([g EXCEPT !.turn = @ + 1])

is_first_turn(g) == g.turn = 0

\* A recount that leaves the counters as they are.
recount_stale(g) == g.players

\* The recount of Game::get_update: the counters are reset, then every tile
\* with an owner adds 1 to the counter of its owner.
recount(g) ==
    [p \in DOMAIN g.players |->
        [g.players[p] EXCEPT !.owned_tiles =
            Cardinality({i \in DOMAIN g.map.tiles :
                            g.map.tiles[i].owner = p})]]

\* A marking that does not look at the counters.
mark_defeated_all(ps, t) ==
    [p \in DOMAIN ps |->
        IF ~defeated(ps[p]) THEN [ps[p] EXCEPT !.defeated_at = t] ELSE ps[p]]

\* A marking that stamps the players without tiles at every update.
mark_defeated_again(ps, t) ==
    [p \in DOMAIN ps |->
        IF ps[p].owned_tiles = 0 THEN [ps[p] EXCEPT !.defeated_at = t]
        ELSE ps[p]]

\* The last loop of Game::get_update, over the recounted players, at the
\* turn t.
mark_defeated(ps, t) ==
    [p \in DOMAIN ps |->
        IF ps[p].owned_tiles = 0 /\ ~defeated(ps[p])
        THEN [ps[p] EXCEPT !.defeated_at = t]
        ELSE ps[p]]

\* Game::get_update: the game it leaves and the Update it returns.
get_update(g) ==
    LET tl == g.map.tiles
        counted == recount(g)
        sent == {i \in DOMAIN tl : is_first_turn(g) \/ is_dirty(tl[i])}
        marked == mark_defeated(counted, g.turn)
    IN  [game |-> [map |-> [g.map EXCEPT !.tiles =
                              [i \in DOMAIN tl |->
                                  IF i \in sent THEN set_clean(tl[i])
                                  ELSE tl[i]]],
                   players |-> marked,
                   turn |-> g.turn],
         update |-> [turn |-> g.turn,
                     players |-> marked,
                     width |-> g.map.width,
                     height |-> g.map.height,
                     is_initial_update |-> is_first_turn(g),
                     tiles |-> [i \in sent |-> tl[i]]]]

\* What Update::filtered does to the clone of a tile the player does not
\* see.
filtered_hidden(t) ==
    LET t1 == set_units(t, 0)
        t2 == IF is_general(t1) THEN set_owner(make_open(t1), NoPlayer)
              ELSE t1
    IN  IF is_fortress(t2) THEN make_wall(t2) ELSE t2

\* Update::filtered: the Update sent to the player.
filtered(update, player) ==
    LET kept == {i \in DOMAIN update.tiles :
                    \/ is_dirty_for(update.tiles[i], player)
                    \/ update.is_initial_update}
    IN  [update EXCEPT !.tiles =
            [i \in kept |->
                IF ~is_visible_by(update.tiles[i], player)
                THEN filtered_hidden(update.tiles[i])
                ELSE update.tiles[i]]]

\* ---------------------------------------------------------- Map generator

\* The indices that a path of direct neighbours over non-Mountain tiles
\* joins to the indices of seen (the sets the union-find of
\* GridBuilder::build merges).
RECURSIVE Connected(_, _)
Connected(m, seen) ==
    LET more == {j \in Indices(m) :
                    /\ ~is_mountain(m.tiles[j])
                    /\ \E i \in seen : j \in Range(direct_neighbors(m, i))}
    IN  IF more \subseteq seen THEN seen
        ELSE Connected(m, seen \cup more)

\* What GridBuilder::build returns: the generals, far enough from each
\* other, and a grid of Mountain, Open and General tiles in which every
\* general is connected to the first one.
Generated(generals, m) ==
    /\ \A k1, k2 \in 1 .. Len(generals) :
          k1 # k2 => manhattan_distance(m, generals[k1], generals[k2])
                         >= MinDistance
    /\ \A i \in Indices(m) :
          /\ m.tiles[i].kind \in {"Mountain", "Open", "General"}
          /\ is_general(m.tiles[i]) <=> i \in Range(generals)
          /\ m.tiles[i] = [Tile_new EXCEPT !.kind = m.tiles[i].kind]
    /\ Range(generals) \subseteq Connected(m, {generals[1]})

\* The maps of the given size and their generals, for n players.
Maps(w, h, n) ==
    {gm \in [generals : {g \in [1 .. n -> 0 .. (w * h - 1)] :
                            \A k1, k2 \in 1 .. n : k1 # k2 => g[k1] # g[k2]},
             map : [width : {w}, height : {h},
                    tiles : [0 .. (w * h - 1) ->
                               {[Tile_new EXCEPT !.kind = k] :
                                   k \in {"Mountain", "Open", "General"}}]]] :
        Generated(gm.generals, gm.map)}

\* ------------------------------------------------------------------ state

VARIABLES
    map,            \* Game.map
    players,        \* Game.players: PlayerId -> Player
    turn,           \* Game.turn
    last,           \* the last call on the Game and what it returned
    connections,    \* ActiveGame.connections: PlayerId -> ConnectionProxy,
                    \* with the contents of its two channels
    clients,        \* the Connection futures: open or not, and the updates
                    \* written to their websocket
    order,          \* the iteration order of ActiveGame.connections
    started,        \* whether the Server has started the game
    log,            \* what the last tick did
    server,         \* the Server: its pending game, the channel of the new
                    \* connections and the games it has spawned
    builder         \* the GridBuilder of a map that is being generated

gvars == <<map, players, turn>>

rvars == <<connections, clients, order, started, log, server, builder>>

vars ==
    <<map, players, turn, last, connections, clients, order, started, log,
      server, builder>>

TheGame == [map |-> map, players |-> players, turn |-> turn]

SetGame(g) ==
    /\ map' = g.map
    /\ players' = g.players
    /\ turn' = g.turn

NoMove == Move(NoPlayer, NoIndex, "None")

\* What is recorded of a call: the move is kept when the map accepted it.
Call(op, mv, res) ==
    [op |-> op, mv |-> IF res.err = "Ok" THEN mv ELSE NoMove,
     err |-> res.err, outcome |-> res.outcome, dst |-> res.dst]

NoCall(op) == Call(op, NoMove, MoveErr("None", <<>>))

\* The state after Game::new for the players 0 .. n-1 on a w x h map.
InitGame(w, h, n) ==
    \E gm \in Maps(w, h, n) :
        LET g == Game_new(gm.map, gm.generals, [k \in 1 .. n |-> k - 1])
        IN  /\ map = g.map
            /\ players = g.players
            /\ turn = g.turn
            /\ last = NoCall("new")

\* The moves a caller can hand to Game::perform_move: any player id, known
\* or not, any index, in the grid or just past it, any direction.
Moves ==
    {Move(p, f, d) : p \in DOMAIN players \cup {Cardinality(DOMAIN players)},
                     f \in 0 .. len(map), d \in Directions}

\* No map is being generated.
NoBuilder == <<>>

\* PendingGame::new: no connection, two players to wait for.
PendingGame_new == [connections |-> <<>>, size |-> 2]

\* The Server of Server::run: an empty pending game, nothing in the channel
\* of the new connections, no game spawned. arrived is the history of the
\* connections taken from the channel, in the order they were taken.
Server_new ==
    [pending_game |-> PendingGame_new, connections |-> <<>>,
     games |-> <<>>, arrived |-> <<>>]

\* No runner: the Game is driven through its public methods.
NoRunner ==
    /\ server = Server_new
    /\ builder = NoBuilder
    /\ connections = <<>>
    /\ clients = <<>>
    /\ order = <<>>
    /\ started = FALSE
    /\ log = <<>>

PerformMove(mv) ==
    LET r == Game_perform_move(TheGame, mv)
    IN  /\ SetGame(r.game)
        /\ last' = Call("perform_move", mv, r.res)
        /\ UNCHANGED rvars

IncrTurn ==
    /\ turn < MaxTurn
    /\ SetGame(incr_turn(TheGame))
    /\ last' = NoCall("incr_turn")
    /\ UNCHANGED rvars

GetUpdate ==
    /\ SetGame(get_update(TheGame).game)
    /\ last' = NoCall("get_update")
    /\ UNCHANGED rvars

Resign(p) ==
    /\ SetGame(Game_resign(TheGame, p))
    /\ last' = NoCall("resign")
    /\ UNCHANGED rvars

Init == InitGame(Width, Height, 2) /\ NoRunner

Next ==
    \/ \E mv \in Moves : PerformMove(mv)
    \/ IncrTurn
    \/ GetUpdate
    \/ \E p \in DOMAIN players : Resign(p)

\* The Game of two players under any sequence of calls of its public
\* methods.
Spec == Init /\ [][Next]_vars

\* ------------------------------------------------------ claims on the Game

Owned(p) == {i \in Indices(map) : map.tiles[i].owner = p}

\* The last call was a move that Map::perform_move accepted.
Moved == last.op = "perform_move" /\ last.err = "Ok"

\* C2: every tile owned by a player p has p in its visible_by set.
C2_OwnerSeesTile ==
    \A i \in Indices(map) :
        map.tiles[i].owner # NoPlayer
            => map.tiles[i].owner \in map.tiles[i].visible_by

C7_GeneralCaptured ==
    [][(last'.op = "perform_move" /\ last'.outcome.kind = "GeneralCaptured") =>
        LET d == last'.outcome.player
            a == last'.mv.player
        IN  /\ map.tiles[last'.dst].kind = "General"
            /\ map'.tiles[last'.dst].kind = "City"
            /\ \A i \in Indices(map) :
                  /\ map'.tiles[i].owner # d
                  /\ d \notin map'.tiles[i].visible_by
                  /\ map.tiles[i].owner = d => map'.tiles[i].owner = a
                  /\ d \in map.tiles[i].visible_by
                        => a \in map'.tiles[i].visible_by]_vars

\* A general has just been captured from a player that held another tile.
C7_Witness ==
    /\ Moved
    /\ last.outcome.kind = "GeneralCaptured"
    /\ Cardinality(Owned(last.mv.player)) >= 3
    /\ Owned(last.outcome.player) = {}

C10_RejectedMutatesNothing ==
    [][(/\ last'.op = "perform_move"
        /\ last'.err \in {"FromInvalidTile", "ToInvalidTile",
                          "NotEnoughUnits", "SourceTileNotOwned"})
          => /\ map' = map
             /\ players' = players
             /\ turn' = turn]_vars

\* Tile::attack has just rejected a move of a player from its own tile.
C10_Witness ==
    /\ last.op = "perform_move"
    /\ last.err = "NotEnoughUnits"
    /\ turn >= 2

\* C11: Game::perform_move changes the map only if the player of the move is
\* a player of the game, is not defeated, has owned_tiles >= 1, and owns the
\* source tile; in every other case the map is unchanged, and a move of a
\* player that can move, between two tiles of the grid, from a tile with
\* another owner or none, is rejected by the Map with SourceTileNotOwned.
\* Stated in every state of the game for every move that can be handed to
\* Game::perform_move there.
C11_MoveNeedsOwner ==
    \A mv \in Moves :
        LET r == Game_perform_move(TheGame, mv)
            known == mv.player \in DOMAIN players
            able == /\ known
                    /\ players[mv.player].defeated_at = NoTurn
                    /\ players[mv.player].owned_tiles >= 1
            inside == is_valid_index(map, mv.from)
            owned == inside /\ map.tiles[mv.from].owner = mv.player
        IN  /\ ~(able /\ owned) => r.game.map = map
            /\ (able /\ inside /\ ~owned /\ r.res.err # "ToInvalidTile")
                  => r.res.err = "SourceTileNotOwned"
            /\ ~able => r.res.err = "Ignored"
            /\ r.game.players = players /\ r.game.turn = turn

\* The Map has just rejected a move for its source while a defeated player
\* still holds a tile with units to move.
C11_Witness ==
    /\ last.op = "perform_move"
    /\ last.err = "SourceTileNotOwned"
    /\ \E i \in Indices(map) :
          /\ map.tiles[i].owner # NoPlayer
          /\ defeated(players[map.tiles[i].owner])
          /\ map.tiles[i].units >= 2

\* C12: in the update of the game filtered for a player p, an included tile
\* that p does not see has 0 units, no owner, and a kind that is not General.
C12_HiddenTileRevealsNothing ==
    \A p \in DOMAIN players :
        LET f == filtered(get_update(TheGame).update, p)
        IN  \A i \in DOMAIN f.tiles :
                ~is_visible_by(map.tiles[i], p)
                    => /\ f.tiles[i].units = 0
                       /\ f.tiles[i].owner = NoPlayer
                       /\ f.tiles[i].kind # "General"

C14_SecondUpdateEmpty ==
    last.op = "get_update"
        => /\ \A i \in Indices(map) : ~is_dirty(map.tiles[i])
           /\ DOMAIN get_update(TheGame).update.tiles = {}

\* C14, amended: get_update leaves no tile dirty; a second get_update right
\* after it leaves the game as it is, and returns an empty tile list after
\* turn 0 and every tile at turn 0.
C14_UpdateClearsDirty ==
    last.op = "get_update"
        => /\ \A i \in Indices(map) : ~is_dirty(map.tiles[i])
           /\ get_update(TheGame).game = TheGame
           /\ DOMAIN get_update(TheGame).update.tiles =
                  IF turn = 0 THEN Indices(map) ELSE {}

\* A get_update after turn 0 has just serialized tiles that moves and
\* reinforcements had changed.
C14_Witness ==
    /\ last.op = "get_update"
    /\ turn >= 2
    /\ \E i \in Indices(map) :
          map.tiles[i].kind = "Open" /\ map.tiles[i].owner # NoPlayer

\* C15: get_update sets the defeated_at of a player if and only if the
\* player was not defeated before the call and owns no tile, and it sets it
\* to the current turn; a player that owns a tile, whatever its counter
\* said before the call, is not marked.
C15_DefeatAfterRecount ==
    [][last'.op = "get_update" =>
        \A p \in DOMAIN players :
            /\ (players'[p].defeated_at # players[p].defeated_at)
                  <=> (~defeated(players[p]) /\ Owned(p) = {})
            /\ (~defeated(players[p]) /\ Owned(p) = {})
                  => players'[p].defeated_at = turn
            /\ Owned(p) # {}
                  => players'[p].defeated_at = players[p].defeated_at]_vars

\* A get_update has just marked a player without tiles defeated while the
\* other player holds every tile.
C15_Witness ==
    /\ last.op = "get_update"
    /\ turn >= 1
    /\ \E p, q \in DOMAIN players :
          /\ players[p].defeated_at = turn
          /\ Owned(p) = {}
          /\ ~defeated(players[q])
          /\ Cardinality(Owned(q)) = len(map)

\* ------------------------------------------------ a game of three players

\* Game::incr_turn is not taken beyond this turn in the game of three.
CampaignMaxTurn == 10

\* A generated map for three players:
\*      G1  .   .   M
\*      G0  G2  M   M
CampaignKinds ==
    <<"General", "Open", "Open", "Mountain",
      "General", "General", "Mountain", "Mountain">>

CampaignGenerals == <<4, 0, 5>>

CampaignMap ==
    [width |-> 4, height |-> 2,
     tiles |-> [i \in 0 .. 7 |->
                  [Tile_new EXCEPT !.kind = CampaignKinds[i + 1]]]]

CampaignInit ==
    /\ Generated(CampaignGenerals, CampaignMap)
    /\ LET g == Game_new(CampaignMap, CampaignGenerals, <<0, 1, 2>>)
       IN  /\ map = g.map
           /\ players = g.players
           /\ turn = g.turn
           /\ last = NoCall("new")
    /\ NoRunner

\* The moves of a player from a tile it owns with enough units.
OwnMoves ==
    {mv \in Moves : /\ is_valid_index(map, mv.from)
                    /\ mv.player \in DOMAIN players
                    /\ map.tiles[mv.from].owner = mv.player
                    /\ map.tiles[mv.from].units >= 2}

CampaignMove(mv) ==
    /\ PerformMove(mv)
    /\ last'.err = "Ok"

CampaignTurn ==
    /\ turn < CampaignMaxTurn
    /\ SetGame(incr_turn(TheGame))
    /\ last' = NoCall("incr_turn")
    /\ UNCHANGED rvars

CampaignNext ==
    \/ \E mv \in OwnMoves : CampaignMove(mv)
    \/ CampaignTurn

\* The Game of three players under the moves the map accepts and the turns.
CampaignSpec == CampaignInit /\ [][CampaignNext]_vars

\* C8: every non-Mountain tile that is visible to a player p is owned by p
\* or has an extended neighbour owned by p.
C8_VisibleNearOwned ==
    \A i \in Indices(map) : \A p \in DOMAIN players :
        (map.tiles[i].kind # "Mountain" /\ p \in map.tiles[i].visible_by)
            => (map.tiles[i].owner = p \/ owns_extended_neighbor(map, p, i))

\* ------------------------------------------------------- a long game
\* The two players leave their generals alone until the turn LateFirstMove;
\* the game then runs past the global reinforcement of turn 50.

LateFirstMove == 46
LateMaxTurn == 52

LateMove(mv) ==
    /\ turn >= LateFirstMove
    /\ PerformMove(mv)
    /\ last'.err = "Ok"

LateTurn ==
    /\ turn < LateMaxTurn
    /\ SetGame(incr_turn(TheGame))
    /\ last' = NoCall("incr_turn")
    /\ UNCHANGED rvars

LateNext ==
    \/ \E mv \in OwnMoves : LateMove(mv)
    \/ LateTurn

LateSpec == Init /\ [][LateNext]_vars

\* The units the reinforcement of the turn t gives to the tile tl.
Gain(tl, t) ==
    IF t % 50 = 0
    THEN IF tl.kind = "General"
            \/ (tl.owner # NoPlayer /\ tl.kind # "Mountain")
         THEN 1 ELSE 0
    ELSE IF t % 2 = 0
    THEN IF tl.kind = "General"
            \/ (tl.kind = "City" /\ tl.owner # NoPlayer)
         THEN 1 ELSE 0
    ELSE 0

ReinforceMaxUnits == 3

\* The tiles of the maps: a Mountain is a new tile; any other tile has been
\* given its kind, its owner, who sees it, and its units.
AnyTiles ==
    {Tile_new}
    \cup {[owner |-> o, units |-> u, kind |-> k,
           visible_by |-> IF o = NoPlayer THEN {} ELSE {o},
           dirty_for |-> {}] :
              o \in {NoPlayer, 0, 1}, u \in {0, 2},
              k \in {"Open", "General", "City"}}

ReinforceInit ==
    /\ map \in [width : {2}, height : {1}, tiles : [0 .. 1 -> AnyTiles]]
    /\ players = [p \in {0, 1} |-> Player_new]
    /\ turn = 0
    /\ last = NoCall("from_grid")
    /\ NoRunner

Reinforce(reinforce_all_tiles) ==
    /\ \A i \in Indices(map) : map.tiles[i].units < ReinforceMaxUnits
    /\ map' = Map_reinforce(map, reinforce_all_tiles)
    /\ last' = NoCall(IF reinforce_all_tiles THEN "reinforce(true)"
                      ELSE "reinforce(false)")
    /\ UNCHANGED <<players, turn>>
    /\ UNCHANGED rvars

ReinforceNext == \E reinforce_all_tiles \in BOOLEAN :
                     Reinforce(reinforce_all_tiles)

ReinforceSpec == ReinforceInit /\ [][ReinforceNext]_vars

\* C17: Map::reinforce(full) adds exactly 1 unit to every General, to every
\* City that has an owner and, when full, to every other owned tile that is
\* no Mountain; every other tile (an unowned Open tile, an unowned City, a
\* Mountain, an owned Open tile when not full) keeps its units; no owner and
\* no kind changes.
C17_ReinforceAddsOne ==
    [][last'.op \in {"reinforce(true)", "reinforce(false)"} =>
        \A i \in Indices(map) :
            LET t == map.tiles[i]
                full == last'.op = "reinforce(true)"
                gains == \/ t.kind = "General"
                         \/ (t.kind = "City" /\ t.owner # NoPlayer)
                         \/ (/\ full /\ t.owner # NoPlayer
                             /\ t.kind # "Mountain")
            IN  /\ map'.tiles[i].units = t.units + (IF gains THEN 1 ELSE 0)
                /\ map'.tiles[i].owner = t.owner
                /\ map'.tiles[i].kind = t.kind]_vars

\* A reinforce(false) has just left an owned Open tile with the unit an
\* earlier reinforce(true) gave it, next to an unowned City without units.
C17_Witness ==
    /\ last.op = "reinforce(false)"
    /\ \E i, j \in Indices(map) :
          /\ map.tiles[i].kind = "Open" /\ map.tiles[i].owner # NoPlayer
          /\ map.tiles[i].units = 1
          /\ map.tiles[j].kind = "City" /\ map.tiles[j].owner = NoPlayer
          /\ map.tiles[j].units = 0

\* ------------------------------------------- Connection, ConnectionProxy

\* The messages the actions channel and the updates channel hold before
\* start_send answers NotReady (both are a channel(10) in the code).
ActionsCap == 2
UpdatesCap == 1
\* The actions and moves queued for one endpoint when a client's move is
\* still taken.
MaxPending == 2
\* Game::incr_turn is not taken beyond this turn by the runner.
RunnerMaxTurn == 5

\* Default::default() of PlayerId, the value serde gives the skipped field
\* Move.player.
DefaultPlayerId == 0

\* A text frame of a client: the JSON of an action, or something else.
Frame(type, p, f, d) ==
    [type |-> type, player |-> p, from |-> f, direction |-> d]

NoFrame == Frame("none", NoPlayer, NoIndex, "None")

\* serde_json::from_str::<Action>: None stands for an Err.
Deserialize(frame) ==
    CASE frame.type = "move" ->
           [type |-> "Move",
            mv |-> Move(DefaultPlayerId, frame.from, frame.direction)]
      [] frame.type = "resign" -> [type |-> "Resign", mv |-> NoMove]
      [] frame.type = "cancel_moves" -> [type |-> "CancelMoves", mv |-> NoMove]
      [] OTHER -> [type |-> "None", mv |-> NoMove]

\* The ConnectionProxy of Connection::new, with the contents of the actions
\* channel it receives from and of the updates channel it sends to.
Proxy_new ==
    [actions |-> <<>>, updates |-> <<>>, pending_moves |-> <<>>,
     resigned |-> FALSE]

\* The Connection of Connection::new: the future is alive, nothing written
\* to the websocket.
Client_new == [open |-> TRUE, delivered |-> <<>>]

\* A start_send that answers Ready for a message it has no room for.
start_send_lossy(queue, cap, msg, receiver_alive) ==
    IF ~receiver_alive THEN [queue |-> queue, res |-> "Err"]
    ELSE IF Len(queue) >= cap THEN [queue |-> queue, res |-> "Ready"]
    ELSE [queue |-> Append(queue, msg), res |-> "Ready"]

\* Sender::start_send on a bounded channel: the queue, and whether the
\* message was taken.
start_send(queue, cap, msg, receiver_alive) ==
    IF ~receiver_alive THEN [queue |-> queue, res |-> "Err"]
    ELSE IF Len(queue) >= cap THEN [queue |-> queue, res |-> "NotReady"]
    ELSE [queue |-> Append(queue, msg), res |-> "Ready"]

\* Connection::handle_message, on the proxy record that holds the channel.
handle_message(c, frame) ==
    LET action == Deserialize(frame)
    IN  IF action.type = "None" THEN c
        ELSE [c EXCEPT !.actions = start_send(@, ActionsCap, action, TRUE).queue]

\* Connection::process_updates: every update of the channel is written to
\* the websocket.
process_updates(c, cl) ==
    [proxy |-> [c EXCEPT !.updates = <<>>],
     client |-> [cl EXCEPT !.delivered = @ \o c.updates]]

\* A resign that leaves the pending moves.
proxy_resign_keeps_moves(c) == [c EXCEPT !.resigned = TRUE]

proxy_resign(c) == [c EXCEPT !.resigned = TRUE, !.pending_moves = <<>>]

\* A poll_actions that a CancelMoves ends, as a Resign does.
RECURSIVE poll_actions_cancel_stops(_, _)
poll_actions_cancel_stops(c, sender_alive) ==
    IF c.actions = <<>>
    THEN IF sender_alive THEN c ELSE proxy_resign(c)
    ELSE LET a == Head(c.actions)
             rest == [c EXCEPT !.actions = Tail(@)]
         IN  IF a.type \in {"CancelMoves", "Resign"} THEN proxy_resign(rest)
             ELSE poll_actions_cancel_stops(
                      [rest EXCEPT !.pending_moves = Append(@, a.mv)],
                      sender_alive)

\* ConnectionProxy::poll_actions: sender_alive tells whether the Connection
\* still holds the sending end.
RECURSIVE poll_actions(_, _)
poll_actions(c, sender_alive) ==
    IF c.actions = <<>>
    THEN IF sender_alive THEN c ELSE proxy_resign(c)
    ELSE LET a == Head(c.actions)
             rest == [c EXCEPT !.actions = Tail(@)]
         IN  CASE a.type = "CancelMoves" ->
                    poll_actions([rest EXCEPT !.pending_moves = <<>>],
                                 sender_alive)
               [] a.type = "Resign" -> proxy_resign(rest)
               [] OTHER ->
                    poll_actions([rest EXCEPT !.pending_moves =
                                                 Append(@, a.mv)],
                                 sender_alive)

\* A latch that is never seen set.
has_resigned_never(c) == FALSE

\* ConnectionProxy::has_resigned.
has_resigned(c) == c.resigned

\* A get_move that takes the move queued last.
get_move_back(c) ==
    [mv |-> c.pending_moves[Len(c.pending_moves)],
     proxy |-> [c EXCEPT !.pending_moves =
                            SubSeq(@, 1, Len(c.pending_moves) - 1)]]

\* ConnectionProxy::get_move on a proxy that has a move queued (it returns
\* None otherwise): the move and the proxy it leaves.
get_move(c) ==
    [mv |-> Head(c.pending_moves),
     proxy |-> [c EXCEPT !.pending_moves = Tail(@)]]

\* ------------------------------------------------------------ ActiveGame
\* The runner is the record [game, connections], with the clients it talks
\* to and the log of what it did.

\* ActiveGame::process_players_actions over the connections in iteration
\* order s; applied logs the moves handed to the game.
RECURSIVE process_players_actions(_, _, _, _)
process_players_actions(g, conns, s, applied) ==
    IF s = <<>> THEN [game |-> g, connections |-> conns, applied |-> applied]
    ELSE
      LET player == Head(s)
      IN  IF has_resigned(conns[player])
          THEN process_players_actions(g, conns, Tail(s), applied)
          ELSE
            LET c1 == poll_actions(conns[player], clients[player].open)
            IN  IF has_resigned(c1)
                THEN process_players_actions(
                         Game_resign(g, player),
                         [conns EXCEPT ![player] = c1], Tail(s), applied)
                ELSE IF c1.pending_moves # <<>>
                THEN LET mv == get_move(c1).mv
                         c2 == get_move(c1).proxy
                         r == Game_perform_move(g, mv)
                         src_owner ==
                             IF is_valid_index(g.map, mv.from)
                             THEN g.map.tiles[mv.from].owner
                             ELSE NoPlayer
                     IN  process_players_actions(
                             r.game, [conns EXCEPT ![player] = c2], Tail(s),
                             Append(applied,
                                    [endpoint |-> player,
                                     player |-> mv.player,
                                     from |-> mv.from,
                                     direction |-> mv.direction,
                                     turn |-> g.turn,
                                     err |-> r.res.err,
                                     src_owner |-> src_owner]))
                ELSE process_players_actions(
                         g, [conns EXCEPT ![player] = c1], Tail(s), applied)

\* The loop of ActiveGame::start_send_updates over the connections in
\* iteration order s; failed collects the players the update was not
\* offered to with success.
RECURSIVE send_loop(_, _, _, _, _)
send_loop(g, conns, update, s, failed) ==
    IF s = <<>> THEN [game |-> g, connections |-> conns, failed |-> failed]
    ELSE
      LET player == Head(s)
          c == conns[player]
          r == start_send(c.updates, UpdatesCap, [turn |-> update.turn],
                          clients[player].open)
      IN  IF has_resigned(c)
          THEN send_loop(g, conns, update, Tail(s), failed)
          ELSE IF r.res = "Ready"
          THEN send_loop(g, [conns EXCEPT ![player].updates = r.queue],
                         update, Tail(s), failed)
          ELSE send_loop(Game_resign(g, player),
                         [conns EXCEPT ![player] = proxy_resign(c)],
                         update, Tail(s), failed \cup {player})

start_send_updates(g, conns, s) ==
    LET u == get_update(g)
    IN  send_loop(u.game, conns, u.update, s, {})

\* ActiveGame::poll_complete_updates: Sender::poll_complete of a channel
\* never fails, so nobody is resigned here.
poll_complete_updates(g, conns) == [game |-> g, connections |-> conns]

NoLog == [op |-> "none", applied |-> <<>>, failed |-> {}]

\* The state after ActiveGame::from(&mut PendingGame) for the two
\* connections of a pending game, each Connection spawned already, on the
\* maps that have the two generals in opposite corners.
RunnerInit ==
    /\ InitGame(Width, Height, 2)
    /\ map.tiles[0].owner = 0
    /\ map.tiles[len(map) - 1].owner = 1
    /\ connections = [p \in {0, 1} |-> Proxy_new]
    /\ clients = [p \in {0, 1} |-> Client_new]
    /\ order \in {<<0, 1>>, <<1, 0>>}
    /\ started = FALSE
    /\ log = NoLog
    /\ server = Server_new
    /\ builder = NoBuilder

\* Server::poll, once the pending game is ready: the first updates are sent
\* and the game is spawned.
StartGame ==
    /\ ~started
    /\ LET s == start_send_updates(TheGame, connections, order)
       IN  /\ SetGame(s.game)
           /\ connections' = s.connections
           /\ log' = [op |-> "start", applied |-> <<>>, failed |-> s.failed]
    /\ started' = TRUE
    /\ UNCHANGED <<last, clients, order, server, builder>>

\* One tick of ActiveGame::poll: the result of each call is the input of
\* the next one.
Tick ==
    /\ started
    /\ turn < RunnerMaxTurn
    /\ \E a \in {process_players_actions(TheGame, connections, order, <<>>)} :
       \E i \in {incr_turn(a.game)} :
       \E s \in {start_send_updates(i, a.connections, order)} :
       \E f \in {poll_complete_updates(s.game, s.connections)} :
          /\ SetGame(f.game)
          /\ connections' = f.connections
          /\ log' = [op |-> "tick", applied |-> a.applied,
                     failed |-> s.failed]
    /\ UNCHANGED <<last, clients, order, started, server, builder>>

\* The text frames the client of the endpoint e sends. The client of
\* player 1 sends any action, its moves from the generals and the captured
\* generals, claiming any player id, or something that is no action; the
\* client of player 0 resigns or sends nothing.
Frames(e) ==
    IF e = 1
    THEN {Frame("move", p, f, d) :
              p \in DOMAIN players,
              f \in {i \in Indices(map) : \/ is_general(map.tiles[i])
                                          \/ is_city(map.tiles[i])},
              d \in {"Left", "Right"}}
         \cup {Frame("resign", NoPlayer, NoIndex, "None"),
               Frame("cancel_moves", NoPlayer, NoIndex, "None"),
               Frame("garbage", NoPlayer, NoIndex, "None"), NoFrame}
    ELSE {Frame("resign", NoPlayer, NoIndex, "None"), NoFrame}

\* Connection::poll of the endpoint e, with the websocket ready to write:
\* the updates are written out, then the frame received, if any, is handled.
ConnPoll(e, frame) ==
    /\ clients[e].open
    /\ frame.type = "move" =>
          Len(connections[e].actions) + Len(connections[e].pending_moves)
              < MaxPending
    /\ LET u == process_updates(connections[e], clients[e])
           c == IF frame = NoFrame THEN u.proxy
                ELSE handle_message(u.proxy, frame)
       IN  /\ connections' = [connections EXCEPT ![e] = c]
           /\ clients' = [clients EXCEPT ![e] = u.client]
    /\ UNCHANGED <<map, players, turn, last, order, started, log, server,
                   builder>>

\* The websocket of the endpoint e is disconnected: Connection::poll ends
\* with an error and the Connection is dropped, with its ends of the two
\* channels.
ConnClose(e) ==
    /\ clients[e].open
    /\ clients' = [clients EXCEPT ![e].open = FALSE]
    /\ UNCHANGED <<map, players, turn, last, connections, order, started,
                   log, server, builder>>

RunnerNext ==
    \/ StartGame
    \/ Tick
    \/ \E e \in DOMAIN clients : \E frame \in Frames(e) : ConnPoll(e, frame)
    \/ \E e \in DOMAIN clients : ConnClose(e)

\* The runner of a game of two players with its two connections.
RunnerSpec == RunnerInit /\ [][RunnerNext]_vars

\* ---------------------------------------------------- claims on the runner

\* C1: every move the runner applies carries the PlayerId of the endpoint
\* that submitted it, so the client of a player p only moves units out of
\* tiles owned by p: the source of every move of the last tick that the map
\* accepted was owned by the player of the endpoint it came from.
C1_MovesOwnTilesOnly ==
    \A k \in 1 .. Len(log.applied) :
        log.applied[k].err = "Ok"
            => /\ log.applied[k].player = log.applied[k].endpoint
               /\ log.applied[k].src_owner = log.applied[k].endpoint

\* The updates sent to the endpoint e that its Connection has not dropped:
\* those written to the websocket, then those of the channel.
Sent(e) == clients[e].delivered \o connections[e].updates

C6_FailedOfferResigns ==
    \A e \in log.failed :
        /\ connections[e].resigned
        /\ connections[e].pending_moves = <<>>
        /\ defeated(players[e])

\* The last tick found the sink of a connected client full.
C6_Witness ==
    /\ log.op = "tick"
    /\ \E e \in log.failed :
          /\ clients[e].open
          /\ Len(connections[e].updates) = UpdatesCap
          /\ players[e].defeated_at = turn

\* C18: every move a tick hands to the Game is resolved after the
\* Game::incr_turn of that tick, against the incremented turn and the
\* reinforced board: the turn the Game had when the move was applied is the
\* turn the tick ends with.
C18_MovesAfterTick ==
    \A k \in 1 .. Len(log.applied) : log.applied[k].turn = turn

\* --------------------------------- ConnectionProxy::poll_actions alone
\* One ConnectionProxy in any state the moves and actions of a client can
\* bring it to, polled by the runner.

DrainMaxActions == 3
DrainMaxMoves == 2

SeqsUpTo(S, n) == UNION {[1 .. k -> S] : k \in 0 .. n}

\* The actions of the channel: what Deserialize makes of the frames.
DrainActions ==
    {Deserialize(f) :
        f \in {Frame("move", NoPlayer, i, "Right") : i \in {0, 1}}
               \cup {Frame("resign", NoPlayer, NoIndex, "None"),
                     Frame("cancel_moves", NoPlayer, NoIndex, "None")}}

DrainInit ==
    /\ map = [width |-> 0, height |-> 0, tiles |-> <<>>]
    /\ players = <<>>
    /\ turn = 0
    /\ last = NoCall("none")
    /\ \E acts \in SeqsUpTo(DrainActions, DrainMaxActions) :
       \E moves \in SeqsUpTo({a.mv : a \in {x \in DrainActions :
                                                  x.type = "Move"}},
                              DrainMaxMoves) :
          connections = [e \in {0} |->
                            [Proxy_new EXCEPT !.actions = acts,
                                              !.pending_moves = moves]]
    /\ clients \in [{0} -> [open : BOOLEAN, delivered : {<<>>}]]
    /\ order = <<0>>
    /\ started = TRUE
    /\ log = NoLog
    /\ server = Server_new
    /\ builder = NoBuilder

\* The runner polls the actions of the proxy; the log keeps the actions the
\* channel held.
PollActions ==
    /\ ~has_resigned(connections[0])
    /\ log.op = "none"
    /\ connections' = [connections EXCEPT
                          ![0] = poll_actions(@, clients[0].open)]
    /\ log' = [op |-> "poll_actions", applied |-> connections[0].actions,
               failed |-> {}]
    /\ UNCHANGED <<map, players, turn, last, clients, order, started,
                   server, builder>>

\* ConnectionProxy::get_move.
GetMove ==
    /\ connections[0].pending_moves # <<>>
    /\ connections' = [connections EXCEPT ![0] = get_move(@).proxy]
    /\ log' = [op |-> "get_move",
               applied |-> <<get_move(connections[0]).mv>>,
               failed |-> {}]
    /\ UNCHANGED <<map, players, turn, last, clients, order, started,
                   server, builder>>

DrainNext == PollActions \/ GetMove

DrainSpec == DrainInit /\ [][DrainNext]_vars

MovesOf(acts) ==
    LET sel == SelectSeq(acts, LAMBDA a : a.type = "Move")
    IN  [k \in 1 .. Len(sel) |-> sel[k].mv]

\* C19: poll_actions takes the actions in order up to the first Resign, or
\* all of them. A Move is appended at the tail of pending_moves; a
\* CancelMoves empties pending_moves and the drain goes on, so the moves
\* after the last CancelMoves are queued; a Resign, or the end of a channel
\* whose sender is gone, sets the resigned latch, empties pending_moves and
\* ends the drain, leaving the later actions in the channel.
C19_DrainSemantics ==
    [][log'.op = "poll_actions" =>
        LET c == connections[0]
            d == connections'[0]
            acts == c.actions
            resigns == {k \in 1 .. Len(acts) : acts[k].type = "Resign"}
            stop == IF resigns = {} THEN Len(acts)
                    ELSE CHOOSE k \in resigns : \A j \in resigns : k <= j
            cancels == {k \in 1 .. stop : acts[k].type = "CancelMoves"}
            after == IF cancels = {} THEN 0
                     ELSE CHOOSE k \in cancels : \A j \in cancels : k >= j
            queued == MovesOf(SubSeq(acts, after + 1, stop))
            ends == resigns # {} \/ ~clients[0].open
        IN  /\ d.resigned = ends
            /\ d.actions = SubSeq(acts, stop + 1, Len(acts))
            /\ d.pending_moves =
                   IF ends THEN <<>>
                   ELSE IF cancels = {} THEN c.pending_moves \o queued
                   ELSE queued
            /\ d.updates = c.updates]_vars

\* A drain has just met a Move, a CancelMoves and a Move, and has queued
\* the last move only.
C19_Witness ==
    /\ log.op = "poll_actions"
    /\ Len(log.applied) = 3
    /\ log.applied[1].type = "Move"
    /\ log.applied[2].type = "CancelMoves"
    /\ log.applied[3].type = "Move"
    /\ ~connections[0].resigned
    /\ connections[0].pending_moves = <<log.applied[3].mv>>

\* C20: the actions of an endpoint reach the runner in the order they were
\* sent, and its queued moves are applied first in first out, at most one
\* per tick. Between two ticks the channel of an endpoint only grows, at its
\* tail, and pending_moves does not change. In a tick the runner drains the
\* channel from its head, which without a CancelMoves or a resignation
\* queues the new moves behind the pending ones; then the move at the head
\* of pending_moves, and no other move of the endpoint, is handed to the
\* Game, and the others stay queued in their order, each one place nearer
\* to the head (unless the tick resigns the endpoint).
C20_OneMovePerTickFifo ==
    [][\A e \in DOMAIN connections :
        LET c == connections[e]
            c2 == connections'[e]
            d == poll_actions(c, clients[e].open)
            mine == SelectSeq(log'.applied, LAMBDA x : x.endpoint = e)
        IN  IF turn' = turn
            THEN /\ c2.pending_moves = c.pending_moves
                 /\ \/ c2.actions = c.actions
                    \/ /\ Len(c2.actions) = Len(c.actions) + 1
                       /\ SubSeq(c2.actions, 1, Len(c.actions)) = c.actions
            ELSE IF c.resigned THEN mine = <<>> /\ c2 = c
            ELSE IF d.resigned
            THEN mine = <<>> /\ c2.resigned /\ c2.pending_moves = <<>>
            ELSE /\ (\A k \in 1 .. Len(c.actions) :
                         c.actions[k].type = "Move")
                       => d.pending_moves =
                              c.pending_moves \o MovesOf(c.actions)
                 /\ IF d.pending_moves = <<>>
                    THEN mine = <<>> /\ c2.pending_moves = <<>>
                    ELSE /\ Len(mine) = 1
                         /\ Move(mine[1].player, mine[1].from,
                                 mine[1].direction) = Head(d.pending_moves)
                         /\ IF e \in log'.failed
                            THEN c2.resigned /\ c2.pending_moves = <<>>
                            ELSE c2.pending_moves = Tail(d.pending_moves)
       ]_vars

\* A tick has just applied the first of two different moves an endpoint had
\* sent, and the second one is queued for the next tick.
C20_Witness ==
    /\ log.op = "tick"
    /\ \E e \in DOMAIN connections :
          /\ ~connections[e].resigned
          /\ Len(connections[e].pending_moves) = 1
          /\ \E k \in 1 .. Len(log.applied) :
                /\ log.applied[k].endpoint = e
                /\ Move(log.applied[k].player, log.applied[k].from,
                        log.applied[k].direction)
                      # connections[e].pending_moves[1]

\* ------------------------------------------------------ the resigned latch

\* C21: the resigned latch of an endpoint is permanent. Once it is set, no
\* step clears it; a tick leaves the proxy of the endpoint as it was (no
\* action is drained from its channel, no move is queued or taken for it,
\* no update is offered to it), applies no move that came from it and does
\* not resign it again; and the updates sent to it never grow.
C21_ResignedLatchPermanent ==
    [][\A e \in DOMAIN connections :
          connections[e].resigned =>
             /\ connections'[e].resigned
             /\ connections'[e].pending_moves = <<>>
             /\ Len(clients'[e].delivered \o connections'[e].updates)
                   = Len(Sent(e))
             /\ turn' # turn =>
                   /\ connections'[e] = connections[e]
                   /\ \A k \in 1 .. Len(log'.applied) :
                         log'.applied[k].endpoint # e
                   /\ e \notin log'.failed]_vars

\* An endpoint resigned at least two turns ago, with its client still
\* connected and an action left in its channel after the last tick.
C21_Witness ==
    \E e \in DOMAIN connections :
        /\ connections[e].resigned
        /\ clients[e].open
        /\ connections[e].actions # <<>>
        /\ log.op = "tick"
        /\ players[e].defeated_at # NoTurn
        /\ players[e].defeated_at + 2 <= turn

\* ------------------------------------------------------------ Game::resign

\* C22: Game::resign(p) sets defeated_at of p to the current turn when p is
\* not yet defeated and changes nothing when p is defeated already; it
\* changes no tile and not the turn, so the tiles p owned stay owned by p;
\* and the next incr_turn reinforces the tiles of a defeated player as it
\* does those of any other.
C22_ResignKeepsTiles ==
    [][/\ last'.op = "resign" =>
            /\ map' = map
            /\ turn' = turn
            /\ \E p \in DOMAIN players :
                  players' = [players EXCEPT ![p].defeated_at =
                                 IF @ = NoTurn THEN turn ELSE @]
       /\ last'.op = "incr_turn" =>
            \A p \in DOMAIN players : \A i \in Owned(p) :
                defeated(players[p]) =>
                   /\ map'.tiles[i].owner = p
                   /\ map'.tiles[i].units =
                          map.tiles[i].units + Gain(map.tiles[i], turn')]_vars

\* A player that resigned still owns the General, which holds the two units
\* of two reinforcements that came after the resignation.
C22_Witness ==
    /\ last.op = "incr_turn"
    /\ \E p \in DOMAIN players : \E i \in Owned(p) :
          /\ defeated(players[p])
          /\ players[p].defeated_at < 2
          /\ is_general(map.tiles[i])
          /\ map.tiles[i].units = 2
          /\ turn = 4

\* ------------------------------------------------------------------ Server
\* The lobby: the websockets accepted by Server::run reach Server::poll
\* through a channel, as the proxies of their connections.

\* The websockets that connect, and the proxies the channel of the new
\* connections holds before a send waits (a channel(100) in the code).
MaxEndpoints == 5
ServerChannelCap == 3

\* PendingGame::add.
PendingGame_add(pg, connection) ==
    [pg EXCEPT !.connections = Append(@, connection)]

\* A pending game that is ready one connection late.
is_ready_late(pg) == Len(pg.connections) = pg.size + 1

\* PendingGame::is_ready.
is_ready(pg) == Len(pg.connections) = pg.size

\* ActiveGame::from(&mut PendingGame): the connections are drained from the
\* pending game and enumerated from 0 into the map PlayerId -> connection,
\* whose keys (in no order) are the players of Game::new.
ActiveGame_from(pg) ==
    LET conns == [p \in 0 .. Len(pg.connections) - 1 |->
                     pg.connections[p + 1]]
    IN  [connections |-> conns, players |-> DOMAIN conns,
         drained |-> [pg EXCEPT !.connections = <<>>]]

\* Server::poll: the loop takes every connection the channel holds; each is
\* added to the pending game, and a pending game that is ready is replaced
\* by a new one and becomes a game, which is offered its first updates and
\* spawned.
RECURSIVE Server_poll(_)
Server_poll(sv) ==
    IF sv.connections = <<>> THEN sv
    ELSE
      LET connection == Head(sv.connections)
          taken == [sv EXCEPT !.connections = Tail(@),
                              !.arrived = Append(@, connection)]
          pg == PendingGame_add(sv.pending_game, connection)
      IN  IF ~is_ready(pg)
          THEN Server_poll([taken EXCEPT !.pending_game = pg])
          ELSE LET new_game == ActiveGame_from(pg)
               IN  Server_poll(
                       [taken EXCEPT
                           !.pending_game = PendingGame_new,
                           !.games = Append(@,
                               [connections |-> new_game.connections,
                                players |-> new_game.players,
                                offered |-> DOMAIN new_game.connections])])

\* No game is played: the Server alone.
LobbyInit ==
    /\ map = [width |-> 0, height |-> 0, tiles |-> <<>>]
    /\ players = <<>>
    /\ turn = 0
    /\ last = NoCall("none")
    /\ connections = <<>>
    /\ clients = <<>>
    /\ order = <<>>
    /\ started = FALSE
    /\ log = NoLog
    /\ server = Server_new
    /\ builder = NoBuilder

\* The websocket e is accepted: its Connection is spawned and the proxy is
\* sent to the Server, once the channel has room for it.
Accept(e) ==
    /\ e \notin Range(server.arrived) \cup Range(server.connections)
    /\ Len(server.connections) < ServerChannelCap
    /\ server' = [server EXCEPT !.connections = Append(@, e)]
    /\ UNCHANGED <<map, players, turn, last, connections, clients, order,
                   started, log, builder>>

\* The Server is polled with connections waiting in the channel.
ServerPoll ==
    /\ server.connections # <<>>
    /\ server' = Server_poll(server)
    /\ UNCHANGED <<map, players, turn, last, connections, clients, order,
                   started, log, builder>>

LobbyNext ==
    \/ \E e \in 1 .. MaxEndpoints : Accept(e)
    \/ ServerPoll

LobbySpec == LobbyInit /\ [][LobbyNext]_vars

\* C23: the Server starts a game exactly when the pending game reaches its
\* size of 2: after n arrivals were handled there are n \div 2 games and the
\* pending game holds the arrivals left over, in their order, fewer than 2
\* of them. The k-th game owns exactly the arrivals 2k-1 and 2k, under the
\* distinct PlayerIds 0 and 1 in arrival order, and these are the players of
\* its Game. No endpoint is in two games, or in a game and the pending one.
C23_LobbyStartsFullGames ==
    LET size == PendingGame_new.size
        n == Len(server.arrived)
        InGame(k) == {server.games[k].connections[p] :
                          p \in DOMAIN server.games[k].connections}
    IN  /\ Len(server.games) = n \div size
        /\ server.pending_game.connections =
               SubSeq(server.arrived, (n \div size) * size + 1, n)
        /\ Len(server.pending_game.connections) < size
        /\ server.pending_game.size = size
        /\ \A k \in 1 .. Len(server.games) :
              /\ DOMAIN server.games[k].connections = 0 .. size - 1
              /\ server.games[k].players = 0 .. size - 1
              /\ \A p \in 0 .. size - 1 :
                    server.games[k].connections[p] =
                        server.arrived[(k - 1) * size + p + 1]
              /\ Cardinality(InGame(k)) = size
              /\ InGame(k) \cap Range(server.pending_game.connections) = {}
              /\ \A j \in 1 .. Len(server.games) :
                    j # k => InGame(j) \cap InGame(k) = {}

\* Five connections were handled, not in the order of their numbers: two
\* games were started and the fifth connection waits in the pending game.
C23_Witness ==
    /\ Len(server.games) = 2
    /\ Len(server.pending_game.connections) = 1
    /\ server.arrived[1] > server.arrived[2]
    /\ server.games[2].connections[1] = server.arrived[4]

\* --------------------------------------------------------------- Game::new

MIN_DISTANCE == 10
MIN_GRID_SIZE == 17
GRID_SIZE_MAX_DELTA == 6

\* The grid on which every pick of the random generator is followed, and the
\* distance its generals keep.
BuildWidth == 4
BuildHeight == 3
BuildGenerals == 2
BuildMinDistance == 3

\* UnionFindRange::with_keys_in_range: every key is its own set. A set is
\* named by the smallest key it holds.
UnionFind_new(n) == [i \in 0 .. (n - 1) |-> i]

\* A union-find in which any two keys are found in the same set.
in_same_set_always(uf, a, b) == TRUE

in_same_set(uf, a, b) == uf[a] = uf[b]

union(uf, a, b) ==
    LET r == IF uf[a] < uf[b] THEN uf[a] ELSE uf[b]
    IN  [i \in DOMAIN uf |-> IF uf[i] \in {uf[a], uf[b]} THEN r ELSE uf[i]]

\* A GridBuilder on a grid of Tile::new() tiles of the given size, with the
\* union-find of build; min_distance is the distance the generals keep and
\* returned tells whether build has returned.
GridBuilder_with(w, h, nb_generals, min_distance) ==
    [grid |-> [width |-> w, height |-> h,
               tiles |-> [i \in 0 .. (w * h - 1) |-> Tile_new]],
     generals |-> <<>>,
     nb_generals |-> nb_generals,
     min_distance |-> min_distance,
     uf |-> UnionFind_new(w * h),
     returned |-> FALSE]

\* GridBuilder::new, with the two numbers the random generator gives for
\* the width and the height.
GridBuilder_new(nb_generals, dw, dh) ==
    GridBuilder_with(MIN_GRID_SIZE + nb_generals + dw,
                     MIN_GRID_SIZE + nb_generals + dh,
                     nb_generals, MIN_DISTANCE)

\* GridBuilder::is_open.
GridBuilder_is_open(b, idx) ==
    b.grid.tiles[idx].kind \in {"Open", "General"}

\* The loop of build over the direct neighbours s of the tile just opened.
RECURSIVE connect_loop(_, _, _)
connect_loop(b, idx, s) ==
    IF s = <<>> THEN b
    ELSE LET i == Head(s)
         IN  IF GridBuilder_is_open(b, i) /\ ~in_same_set(b.uf, idx, i)
             THEN connect_loop([b EXCEPT !.uf = union(b.uf, idx, i)],
                               idx, Tail(s))
             ELSE connect_loop(b, idx, Tail(s))

\* A tile that is never too close to a general.
too_close_never(b, idx) == FALSE

\* Whether the tile is nearer than the minimum distance to a general.
too_close(b, idx) ==
    \E k \in 1 .. Len(b.generals) :
        manhattan_distance(b.grid, idx, b.generals[k]) < b.min_distance

\* Whether some general is not in the set of the first one.
disconnected(b) ==
    \E k \in 2 .. Len(b.generals) :
        ~in_same_set(b.uf, b.generals[1], b.generals[k])

\* One iteration of the loop of build, for the index the random generator
\* picked.
build_step(b, idx) ==
    IF GridBuilder_is_open(b, idx) THEN b
    ELSE
      LET opened == [b EXCEPT !.grid.tiles[idx] = make_open(@)]
          b1 == connect_loop(opened, idx,
                             direct_neighbors(b.grid, idx))
      IN  IF Len(b1.generals) < b1.nb_generals
          THEN IF too_close(b1, idx) THEN b1
               ELSE [b1 EXCEPT !.grid.tiles[idx] = make_general(@),
                               !.generals = Append(@, idx)]
          ELSE IF disconnected(b1) THEN b1
               ELSE [b1 EXCEPT !.returned = TRUE]

\* No game is played and nobody connects: the generator alone.
NoGame ==
    /\ map = [width |-> 0, height |-> 0, tiles |-> <<>>]
    /\ players = <<>>
    /\ turn = 0
    /\ last = NoCall("none")
    /\ connections = <<>>
    /\ clients = <<>>
    /\ order = <<>>
    /\ started = FALSE
    /\ log = NoLog
    /\ server = Server_new

BuildInit ==
    /\ NoGame
    /\ builder = GridBuilder_with(BuildWidth, BuildHeight, BuildGenerals,
                                  BuildMinDistance)

\* build has not returned and the random generator picks the index idx.
BuildPick(idx) ==
    /\ ~builder.returned
    /\ builder' = build_step(builder, idx)
    /\ UNCHANGED <<map, players, turn, last, connections, clients, order,
                   started, log, server>>

BuildNext == \E idx \in Indices(builder.grid) : BuildPick(idx)

BuildSpec == BuildInit /\ [][BuildNext]_vars

\* C25: when build returns, every general is joined to the first one by a
\* path of direct neighbours over tiles that are no Mountain.
C25_GeneralsConnected ==
    builder.returned =>
        Range(builder.generals)
            \subseteq Connected(builder.grid, {builder.generals[1]})

\* build has returned a grid in which Mountains are left and the two
\* generals are joined by a path that has a bend.
C25_Witness ==
    /\ builder.returned
    /\ \E i \in Indices(builder.grid) : is_mountain(builder.grid.tiles[i])
    /\ column(builder.grid, builder.generals[1])
           # column(builder.grid, builder.generals[2])
    /\ line(builder.grid, builder.generals[1])
           # line(builder.grid, builder.generals[2])

\* C26: when build returns, it returns exactly nb_generals generals, on
\* distinct tiles, which are exactly the General tiles of the grid, and any
\* two of them are at a Manhattan distance of at least the minimum distance.
C26_GeneralsFarApart ==
    builder.returned =>
        /\ Len(builder.generals) = builder.nb_generals
        /\ \A k1, k2 \in 1 .. Len(builder.generals) :
              k1 # k2 =>
                 /\ builder.generals[k1] # builder.generals[k2]
                 /\ manhattan_distance(builder.grid, builder.generals[k1],
                                       builder.generals[k2])
                        >= builder.min_distance
        /\ \A i \in Indices(builder.grid) :
              is_general(builder.grid.tiles[i])
                  <=> i \in Range(builder.generals)

\* build has returned two generals at exactly the minimum distance, with a
\* tile next to the first general opened and a Mountain left.
C26_Witness ==
    /\ builder.returned
    /\ manhattan_distance(builder.grid, builder.generals[1],
                          builder.generals[2]) = builder.min_distance
    /\ \E i \in Indices(builder.grid) :
          /\ builder.grid.tiles[i].kind = "Open"
          /\ manhattan_distance(builder.grid, i, builder.generals[1]) = 1
    /\ \E i \in Indices(builder.grid) : is_mountain(builder.grid.tiles[i])

\* ------------------------------------- GridBuilder::build for 8 generals
\* The generator on the smallest grid GridBuilder::new makes for 8 generals
\* (25 x 25), with the minimum distance of the code. The random generator
\* is followed on the picks of UnluckyPicks only, in any order.

UnluckyGenerals == 8

\* Seven tiles (column, line) that are pairwise at a Manhattan distance of
\* at least 10 and such that every tile of the 25 x 25 grid is nearer than
\* 10 to one of them.
UnluckyPicks ==
    {index(GridBuilder_new(UnluckyGenerals, 0, 0).grid, cl[1], cl[2]) :
        cl \in {<<3, 11>>, <<5, 20>>, <<22, 0>>, <<5, 1>>, <<24, 20>>,
                <<18, 7>>, <<14, 19>>}}

UnluckyInit ==
    /\ NoGame
    /\ \E dw, dh \in {d \in 0 .. GRID_SIZE_MAX_DELTA : d = 0} :
          builder = GridBuilder_new(UnluckyGenerals, dw, dh)

UnluckyNext == \E idx \in UnluckyPicks : BuildPick(idx)

UnluckySpec == UnluckyInit /\ [][UnluckyNext]_vars

\* The tiles build can still turn into a general: those not yet opened
\* that are far enough from every general.
Placeable(b) ==
    {i \in Indices(b.grid) :
        ~GridBuilder_is_open(b, i) /\ ~too_close(b, i)}

\* C27: the generator cannot get stuck: as long as build has not returned,
\* either generals are missing and a tile is left that can become one, or
\* all generals are placed and a tile is left to open, which is when build
\* checks the connectivity and returns.
C27_NeverStuck ==
    ~builder.returned =>
        IF Len(builder.generals) < builder.nb_generals
        THEN Placeable(builder) # {}
        ELSE \E i \in Indices(builder.grid) :
                ~GridBuilder_is_open(builder, i)

\* ------------------------------------------- Tile::attack on any two tiles
\* Tile::attack is called on a source and a destination built through the
\* methods of Tile: any kind (make_mountain keeps the owner and the units of
\* a tile), any owner, a few units.

AttackMaxUnits == 3

AttackTiles ==
    {[owner |-> o, units |-> u, kind |-> k,
      visible_by |-> IF o = NoPlayer THEN {} ELSE {o},
      dirty_for |-> {}] :
         o \in {NoPlayer, 0, 1}, u \in 0 .. AttackMaxUnits,
         k \in {"Mountain", "Open", "General", "City"}}

\* The source is the tile 0 and the destination the tile 1.
AttackInit ==
    /\ map \in [width : {2}, height : {1}, tiles : [0 .. 1 -> AttackTiles]]
    /\ players = [p \in {0, 1} |-> Player_new]
    /\ turn = 0
    /\ last = NoCall("tiles")
    /\ NoRunner

Attack ==
    /\ last.op = "tiles"
    /\ \E r \in {attack(map.tiles[0], map.tiles[1])} :
          /\ map' = [map EXCEPT !.tiles[0] = r.src, !.tiles[1] = r.dst]
          /\ last' = Call("attack", NoMove,
                          [err |-> r.err, outcome |-> r.outcome, dst |-> 1])
    /\ UNCHANGED <<players, turn>>
    /\ UNCHANGED rvars

AttackNext == Attack

AttackSpec == AttackInit /\ [][AttackNext]_vars

\* C28: Tile::attack checks its preconditions in a fixed order and returns
\* the first failure: a Mountain source gives FromInvalidTile; else a
\* Mountain destination gives ToInvalidTile; else a source of fewer than 2
\* units gives NotEnoughUnits; else a source without owner gives
\* SourceTileNotOwned; else the attack is performed. A failure leaves both
\* tiles as they were.
C28_AttackCheckOrder ==
    [][last'.op = "attack" =>
         LET src == map.tiles[0]
             dst == map.tiles[1]
         IN  /\ src.kind = "Mountain" => last'.err = "FromInvalidTile"
             /\ (src.kind # "Mountain" /\ dst.kind = "Mountain")
                    => last'.err = "ToInvalidTile"
             /\ (src.kind # "Mountain" /\ dst.kind # "Mountain"
                   /\ src.units < 2)
                    => last'.err = "NotEnoughUnits"
             /\ (src.kind # "Mountain" /\ dst.kind # "Mountain"
                   /\ src.units >= 2 /\ src.owner = NoPlayer)
                    => last'.err = "SourceTileNotOwned"
             /\ (src.kind # "Mountain" /\ dst.kind # "Mountain"
                   /\ src.units >= 2 /\ src.owner # NoPlayer)
                    => last'.err = "Ok"
             /\ last'.err # "Ok" => map' = map]_vars

\* An attack from a Mountain that has no owner and a single unit onto a
\* Mountain was answered FromInvalidTile: every check would have failed.
C28_Witness ==
    /\ last.op = "attack"
    /\ last.err = "FromInvalidTile"
    /\ map.tiles[0].kind = "Mountain"
    /\ map.tiles[0].units = 1
    /\ map.tiles[0].owner = NoPlayer
    /\ map.tiles[1].kind = "Mountain"

\* --------------------------------------------- the updates a client folds
\* The Game under any calls (of the moves, those from a tile of the player
\* with units to move), with the clients of the players: each update
\* is filtered for every connection that has not resigned, serialized, and
\* folded by the client into its picture of the map.

ViewMaxTurn == 6

\* #[derive(Serialize)] of Tile: owner is skipped when None, units when 0,
\* kind when Open, and the kind is written in lowercase; visible_by and
\* dirty_for are never written.
Serialize_Tile(t) ==
    [f \in ((IF t.owner # NoPlayer THEN {"owner"} ELSE {})
              \cup (IF t.units # 0 THEN {"units"} ELSE {})
              \cup (IF t.kind # "Open" THEN {"kind"} ELSE {})) |->
        CASE f = "owner" -> t.owner
          [] f = "units" -> t.units
          [] f = "kind" ->
               CASE t.kind = "General" -> "general"
                 [] t.kind = "City" -> "city"
                 [] t.kind = "Mountain" -> "mountain"]

\* What a client reads in a serialized tile: a field that is absent has
\* the value that made the server skip it.
Client_tile(json) ==
    [kind |-> IF "kind" \in DOMAIN json
              THEN CASE json.kind = "general" -> "General"
                     [] json.kind = "city" -> "City"
                     [] json.kind = "mountain" -> "Mountain"
              ELSE "Open",
     owner |-> IF "owner" \in DOMAIN json THEN json.owner ELSE NoPlayer,
     units |-> IF "units" \in DOMAIN json THEN json.units ELSE 0]

\* What a client knows of a tile it never received.
Unknown == [kind |-> "Unknown", owner |-> NoPlayer, units |-> 0]

\* The client folds an update: the entry received last for an index wins.
Client_fold(cl, update) ==
    [cl EXCEPT
        !.view = [i \in DOMAIN @ |->
                     IF i \in DOMAIN update.tiles
                     THEN Client_tile(Serialize_Tile(update.tiles[i]))
                     ELSE @[i]],
        !.received = DOMAIN update.tiles]

ViewInit ==
    /\ InitGame(Width, Height, 2)
    /\ connections = [p \in DOMAIN players |-> Proxy_new]
    /\ clients = [p \in DOMAIN players |->
                     [open |-> TRUE, received |-> {},
                      view |-> [i \in Indices(map) |-> Unknown]]]
    /\ order = <<>>
    /\ started = FALSE
    /\ log = NoLog
    /\ server = Server_new
    /\ builder = NoBuilder

\* ActiveGame::start_send_updates with room in every channel: the update of
\* the Game is filtered for each connection that has not resigned and
\* reaches its client.
SendUpdates ==
    /\ \E u \in {get_update(TheGame)} :
          /\ SetGame(u.game)
          /\ clients' = [p \in DOMAIN clients |->
                            IF has_resigned(connections[p]) THEN clients[p]
                            ELSE Client_fold(clients[p],
                                             filtered(u.update, p))]
    /\ started' = TRUE
    /\ last' = NoCall("send_updates")
    /\ UNCHANGED <<connections, order, log, server, builder>>

\* The player resigns: the connection and the Game are told.
ViewResign(p) ==
    /\ started
    /\ ~has_resigned(connections[p])
    /\ SetGame(Game_resign(TheGame, p))
    /\ connections' = [connections EXCEPT ![p] = proxy_resign(@)]
    /\ last' = NoCall("resign")
    /\ UNCHANGED <<clients, order, started, log, server, builder>>

ViewMove(mv) == started /\ PerformMove(mv)

ViewTurn == started /\ turn < ViewMaxTurn /\ IncrTurn

ViewNext ==
    \/ SendUpdates
    \/ \E mv \in OwnMoves : ViewMove(mv)
    \/ ViewTurn
    \/ \E p \in DOMAIN players : ViewResign(p)

ViewSpec == ViewInit /\ [][ViewNext]_vars

\* C29: after every update, for every player p whose connection has not
\* resigned, the update of p holds an entry for exactly the tiles that
\* were dirty for p, or for every tile at turn 0, and the picture the
\* client of p has folded from all its updates shows, for every tile that
\* is visible by p, the kind, the owner and the units the server holds.
C29_ViewMatchesServer ==
    [][last'.op = "send_updates" =>
         \A p \in DOMAIN clients :
            ~has_resigned(connections[p]) =>
               /\ clients'[p].received =
                      {i \in Indices(map) :
                          is_dirty_for(map.tiles[i], p) \/ turn = 0}
               /\ \A i \in Indices(map) :
                     is_visible_by(map'.tiles[i], p) =>
                        clients'[p].view[i] =
                            [kind |-> map'.tiles[i].kind,
                             owner |-> map'.tiles[i].owner,
                             units |-> map'.tiles[i].units]]_vars

\* The client of a player whose connection has not resigned has just
\* received an update with an entry for a tile that was hidden from it and
\* another for a tile it sees, among them not its own.
C29_Witness ==
    /\ last.op = "send_updates"
    /\ turn > 0
    /\ \E p \in DOMAIN clients :
          /\ ~has_resigned(connections[p])
          /\ \E i, j \in clients[p].received :
                /\ ~is_visible_by(map.tiles[i], p)
                /\ is_visible_by(map.tiles[j], p)
                /\ map.tiles[j].owner \notin {p, NoPlayer}
                /\ map.tiles[j].units > 0

\* --------------------------------------- a move after the general is lost

\* The general of the player b has been captured and no update has been
\* built since: b owns no tile, while owned_tiles still counts the tiles b
\* had and b is not marked defeated, so that can_move answers true.
Stale(b) == can_move(players[b]) /\ Owned(b) = {}

\* C30: a move of a player whose general was captured earlier, performed
\* before the next get_update recounts the tiles, is not stopped by
\* can_move, is rejected by the map and leaves the map, the players and the
\* turn unchanged.
C30_CapturedCannotMove ==
    [][\A b \in DOMAIN players :
          Stale(b) =>
             \A mv \in {x \in Moves : x.player = b} :
                PerformMove(mv) =>
                   /\ map' = map
                   /\ players' = players
                   /\ turn' = turn
                   /\ last'.err \notin {"Ok", "Ignored"}]_vars

\* Every tile belongs to the player that captured the general of the
\* other, who can still move by the stale count, and the map has just
\* answered SourceTileNotOwned: to a move of the player that lost.
C30_Witness ==
    \E a, b \in DOMAIN players :
        /\ a # b
        /\ Stale(b)
        /\ \A i \in Indices(map) : map.tiles[i].owner = a
        /\ last.op = "perform_move"
        /\ last.err = "SourceTileNotOwned"

\* ------------------------------------------- kinds and owners of the tiles

\* The General tiles of the map.
Generals == {i \in Indices(map) : is_general(map.tiles[i])}

\* C31: in every state reachable from Game::new every General tile has an
\* owner, no player owns two General tiles and no Mountain has an owner; in
\* every step a Mountain stays a Mountain, the only tile that changes kind is
\* the destination of a move whose outcome is GeneralCaptured, which goes from
\* General to City, and the number of General tiles never increases.
C31_KindsAndOwners ==
    /\ [](/\ \A i \in Generals : map.tiles[i].owner # NoPlayer
          /\ \A i, j \in Generals :
                map.tiles[i].owner = map.tiles[j].owner => i = j
          /\ \A i \in Indices(map) :
                is_mountain(map.tiles[i]) => map.tiles[i].owner = NoPlayer)
    /\ [][/\ \A i \in Indices(map) :
             /\ is_mountain(map.tiles[i]) => is_mountain(map'.tiles[i])
             /\ map'.tiles[i].kind # map.tiles[i].kind
                   => /\ is_general(map.tiles[i])
                      /\ is_city(map'.tiles[i])
                      /\ last'.op = "perform_move"
                      /\ last'.outcome.kind = "GeneralCaptured"
                      /\ last'.dst = i
          /\ Cardinality({i \in Indices(map) : is_general(map'.tiles[i])})
                <= Cardinality(Generals)]_vars

\* A general has just been captured and is a City of the capturer, next to a
\* Mountain that nobody owns, and the two other generals are left.
C31_Witness ==
    /\ Moved
    /\ last.outcome.kind = "GeneralCaptured"
    /\ is_city(map.tiles[last.dst])
    /\ map.tiles[last.dst].owner = last.mv.player
    /\ Cardinality(Generals) = 2
    /\ \E i \in Indices(map) : is_mountain(map.tiles[i])

\* C32: after a move answered TileCaptured(prev) on the destination d by the
\* player a, every non-Mountain extended neighbour of d is visible to a; and
\* when prev is a player p, an extended neighbour of d that p saw is still
\* visible to p exactly when p owns one of its extended neighbours.
C32_CaptureMovesHorizon ==
    [][(/\ last'.op = "perform_move"
        /\ last'.err = "Ok"
        /\ last'.outcome.kind = "TileCaptured")
          => LET d == last'.dst
                 a == last'.mv.player
                 p == last'.outcome.player
             IN  /\ \A n \in Range(extended_neighbors(map, d)) :
                       ~is_mountain(map'.tiles[n])
                           => is_visible_by(map'.tiles[n], a)
                 /\ p # NoPlayer
                       => \A n \in Range(extended_neighbors(map, d)) :
                             is_visible_by(map.tiles[n], p)
                                 => (is_visible_by(map'.tiles[n], p)
                                       <=> owns_extended_neighbor(map', p, n))
      ]_vars

\* A player has just lost a tile to another: around the tile one neighbour
\* went out of its sight and another one stayed in it, and the capturer sees
\* every neighbour that is no Mountain.
C32_Witness ==
    /\ Moved
    /\ last.outcome.kind = "TileCaptured"
    /\ last.outcome.player # NoPlayer
    /\ \E n1, n2 \in Range(extended_neighbors(map, last.dst)) :
          /\ ~is_mountain(map.tiles[n1])
          /\ ~is_visible_by(map.tiles[n1], last.outcome.player)
          /\ ~owns_extended_neighbor(map, last.outcome.player, n1)
          /\ is_visible_by(map.tiles[n2], last.outcome.player)
          /\ owns_extended_neighbor(map, last.outcome.player, n2)
    /\ \E n \in Range(extended_neighbors(map, last.dst)) :
          is_mountain(map.tiles[n])
    /\ \A n \in Range(extended_neighbors(map, last.dst)) :
          ~is_mountain(map.tiles[n])
              => is_visible_by(map.tiles[n], last.mv.player)

\* C33: Map::perform_move answers FromInvalidTile to every move whose source
\* index is outside the grid or whose source tile is a Mountain, whatever its
\* direction and its player.
C33_BadSourceIsFromInvalid ==
    \A mv \in Moves :
        (IF is_valid_index(map, mv.from)
         THEN is_mountain(map.tiles[mv.from])
         ELSE TRUE)
            => Map_perform_move(map, mv).err = "FromInvalidTile"

\* ------------------------------------------------ the methods of one Tile
\* Two tiles made by Tile::new, on which the methods of Tile are called in
\* any order with any argument: the tile 0 is the source and the tile 1 the
\* destination of Tile::attack.

\* No tile is given more units than this.
TileMaxUnits == 2

TilePlayers == {0, 1}

TileInit ==
    /\ map = [width |-> 2, height |-> 1, tiles |-> [i \in 0 .. 1 |-> Tile_new]]
    /\ players = [p \in TilePlayers |-> Player_new]
    /\ turn = 0
    /\ last = NoCall("new")
    /\ NoRunner

\* The call of the method op on the tile i with the player p, which leaves
\* the tile t; these methods return nothing.
TileCall(op, i, p, t) ==
    /\ map' = SetTile(map, i, t)
    /\ last' = NoCall("call")
    /\ UNCHANGED <<players, turn>>
    /\ UNCHANGED rvars

TileHideFrom(i, p) == TileCall("hide_from", i, p, hide_from(map.tiles[i], p))

TileRevealTo(i, p) == TileCall("reveal_to", i, p, reveal_to(map.tiles[i], p))

TileMakeOpen(i) == TileCall("make_open", i, NoPlayer, make_open(map.tiles[i]))

TileMakeGeneral(i) ==
    TileCall("make_general", i, NoPlayer, make_general(map.tiles[i]))

TileMakeMountain(i) ==
    TileCall("make_mountain", i, NoPlayer, make_mountain(map.tiles[i]))

TileSetUnits(i, units) ==
    TileCall("set_units", i, NoPlayer, set_units(map.tiles[i], units))

TileIncrUnits(i) ==
    /\ map.tiles[i].units < TileMaxUnits
    /\ TileCall("incr_units", i, NoPlayer, incr_units(map.tiles[i], 1))

TileSetOwner(i, p) == TileCall("set_owner", i, p, set_owner(map.tiles[i], p))

TileSetClean(i) == TileCall("set_clean", i, NoPlayer, set_clean(map.tiles[i]))

TileAttack ==
    \E r \in {attack(map.tiles[0], map.tiles[1])} :
        /\ r.dst.units <= TileMaxUnits
        /\ map' = [map EXCEPT !.tiles[0] = r.src, !.tiles[1] = r.dst]
        /\ last' = Call("attack", Move(NoPlayer, 0, "None"),
                        [err |-> r.err, outcome |-> r.outcome, dst |-> 1])
        /\ UNCHANGED <<players, turn>>
        /\ UNCHANGED rvars

TileNext ==
    \/ \E i \in 0 .. 1, p \in TilePlayers : TileHideFrom(i, p)
    \/ \E i \in 0 .. 1, p \in TilePlayers : TileRevealTo(i, p)
    \/ \E i \in 0 .. 1 : TileMakeOpen(i)
    \/ \E i \in 0 .. 1 : TileMakeGeneral(i)
    \/ \E i \in 0 .. 1 : TileMakeMountain(i)
    \/ \E i \in 0 .. 1, units \in 0 .. TileMaxUnits : TileSetUnits(i, units)
    \/ \E i \in 0 .. 1 : TileIncrUnits(i)
    \/ \E i \in 0 .. 1, p \in TilePlayers \cup {NoPlayer} : TileSetOwner(i, p)
    \/ \E i \in 0 .. 1 : TileSetClean(i)
    \/ TileAttack

TileSpec == TileInit /\ [][TileNext]_vars

\* C34: right after a call that changes the kind, the owner or the units of
\* a tile, every player in its visible_by is in its dirty_for; right after a
\* call that adds a player to visible_by or removes one from it, that player
\* is in dirty_for; and hide_from of a player who does not see the tile
\* leaves the tile as it was.
C34_DirtyMarkingComplete ==
    /\ [][\A i \in Indices(map) :
             LET t == map.tiles[i]
                 n == map'.tiles[i]
             IN  /\ (n.kind # t.kind \/ n.owner # t.owner \/ n.units # t.units)
                        => n.visible_by \subseteq n.dirty_for
                 /\ \A p \in (t.visible_by \ n.visible_by)
                            \cup (n.visible_by \ t.visible_by) :
                        p \in n.dirty_for]_vars
    /\ [](\A i \in Indices(map) : \A p \in DOMAIN players :
             ~is_visible_by(map.tiles[i], p)
                 => hide_from(map.tiles[i], p) = map.tiles[i])

\* An attack has just captured a tile that two players see, and both tiles
\* are dirty for everyone who sees them.
C34_Witness ==
    /\ last.op = "attack"
    /\ last.outcome.kind = "TileCaptured"
    /\ map.tiles[1].visible_by = {0, 1}
    /\ map.tiles[1].dirty_for = {0, 1}
    /\ map.tiles[0].visible_by # {}
    /\ map.tiles[0].visible_by \subseteq map.tiles[0].dirty_for

\* A Mountain as Tile::new makes it: no owner, no unit, nobody sees it and it
\* is not dirty.
BareMountain(t) ==
    /\ is_mountain(t)
    /\ t.owner = NoPlayer
    /\ t.units = 0
    /\ t.visible_by = {}
    /\ ~is_dirty(t)

\* C35: a Mountain rejects all mutation: set_owner, set_units, incr_units and
\* reveal_to called on a Mountain that has no owner, no unit, no viewer and is
\* not dirty leave it with no owner, no unit, no viewer and not dirty.
C35_MountainRejectsMutation ==
    \A i \in Indices(map) :
        BareMountain(map.tiles[i])
            => /\ \A p \in TilePlayers \cup {NoPlayer} :
                      BareMountain(set_owner(map.tiles[i], p))
               /\ \A units \in 0 .. TileMaxUnits :
                      BareMountain(set_units(map.tiles[i], units))
               /\ BareMountain(incr_units(map.tiles[i], 1))
               /\ \A p \in TilePlayers :
                      BareMountain(reveal_to(map.tiles[i], p))

\* ------------------------------------------- fifty turns without a move
\* A board of four tiles at turn 0: the General of player 0 with 10 units,
\* an owned City with 8 units, an owned Open tile with 20 units and a tile
\* nobody owns, at the indices 0, 1, 2 and 3; Game::incr_turn is called and
\* no move is made.

\* Game::incr_turn is not taken beyond this turn.
CadenceMaxTurn == 50

\* The tiles nobody owns: a Mountain, an Open tile, a City with 5 units.
CadenceSpares ==
    {Tile_new, make_open(Tile_new),
     set_units([make_open(Tile_new) EXCEPT !.kind = "City"], 5)}

CadenceInit ==
    /\ \E c, o \in {0, 1}, spare \in CadenceSpares :
          map = [width |-> 2, height |-> 2,
                 tiles |->
                   [i \in 0 .. 3 |->
                      <<set_units(set_owner(make_general(Tile_new), 0), 10),
                        set_units(set_owner([make_open(Tile_new)
                                               EXCEPT !.kind = "City"], c), 8),
                        set_units(set_owner(make_open(Tile_new), o), 20),
                        spare>>[i + 1]]]
    /\ players = [p \in {0, 1} |-> [Player_new EXCEPT !.owned_tiles = 1]]
    /\ turn = 0
    /\ last = NoCall("new")
    /\ NoRunner

CadenceTurn ==
    /\ turn < CadenceMaxTurn
    /\ SetGame(incr_turn(TheGame))
    /\ last' = NoCall("incr_turn")
    /\ UNCHANGED rvars

CadenceNext == CadenceTurn

CadenceSpec == CadenceInit /\ [][CadenceNext]_vars

EndgameMaxTurn == 8

EndgameTurn ==
    /\ turn < EndgameMaxTurn
    /\ SetGame(incr_turn(TheGame))
    /\ last' = NoCall("incr_turn")
    /\ UNCHANGED rvars

EndgameNext ==
    \/ \E mv \in OwnMoves : PerformMove(mv)
    \/ EndgameTurn
    \/ GetUpdate
    \/ \E p \in DOMAIN players : Resign(p)

EndgameSpec == Init /\ [][EndgameNext]_vars

\* C37: defeated_at is written once: in every step a player that is defeated
\* keeps its defeated_at, whatever is called (resign, perform_move with a
\* capture of its general, incr_turn, get_update), and cannot move after the
\* step.
C37_DefeatedAtWriteOnce ==
    [][\A p \in DOMAIN players :
          defeated(players[p])
              => /\ players'[p].defeated_at = players[p].defeated_at
                 /\ ~can_move(players'[p])]_vars

\* A player whose general was captured was marked defeated at an earlier
\* turn, and an update has just been built again: it owns nothing, is still
\* marked with the earlier turn, and cannot move.
C37_Witness ==
    /\ last.op = "get_update"
    /\ \E p \in DOMAIN players :
          /\ defeated(players[p])
          /\ players[p].defeated_at < turn
          /\ players[p].owned_tiles = 0
          /\ Owned(p) = {}
          /\ ~can_move(players[p])

\* The smaller of two numbers.
Min(a, b) == IF a < b THEN a ELSE b

\* C38: a move the map accepts never creates units: with A the units of the
\* source minus 1 before the move, the units of source and destination sum
\* up to the same number after a transfer between two tiles of one owner,
\* and to 2 * min(A, units of the destination) less after an attack on a
\* tile of another owner or of nobody; the units of every other tile are
\* left as they were.
C38_UnitsConserved ==
    [][(last'.op = "perform_move" /\ last'.err = "Ok")
          => LET s == last'.mv.from
                 d == last'.dst
                 A == map.tiles[s].units - 1
                 before == map.tiles[s].units + map.tiles[d].units
                 after == map'.tiles[s].units + map'.tiles[d].units
             IN  /\ map.tiles[d].owner = map.tiles[s].owner
                       => after = before
                 /\ map.tiles[d].owner # map.tiles[s].owner
                       => after = before - 2 * Min(A, map.tiles[d].units)
                 /\ after <= before
                 /\ \A i \in Indices(map) \ {s, d} :
                       map'.tiles[i].units = map.tiles[i].units]_vars

\* A player has just moved units between two of its tiles: the source keeps
\* one unit and the destination holds more than it received.
C38_Witness ==
    /\ Moved
    /\ last.outcome = StatuQuo
    /\ map.tiles[last.dst].owner = last.mv.player
    /\ map.tiles[last.mv.from].owner = last.mv.player
    /\ map.tiles[last.mv.from].units = 1
    /\ map.tiles[last.dst].units >= 2

\* ------------------------------------------------- a game that never ends
\* ActiveGame::poll calls Game::incr_turn once per second for as long as the
\* server runs, whether the players move or not: the game of three players
\* in which nobody moves.

\* Game::incr_turn is not taken beyond this turn: 2 * 65536.
LongMaxTurn == 131072

\* The tiles Map::reinforce increments when it is called at the given turn.
Reinforced(m, t) ==
    {i \in Indices(m) :
        /\ ~is_mountain(m.tiles[i])
        /\ \/ (m.tiles[i].owner # NoPlayer /\ t % 50 = 0)
           \/ (t % 2 = 0 /\ is_general(m.tiles[i]))
           \/ (t % 2 = 0 /\ is_city(m.tiles[i])
                 /\ m.tiles[i].owner # NoPlayer)}

\* `self.units += units` of Tile::incr_units would pass the 16 bits at the
\* next turn.
IncrOverflows ==
    \E i \in Reinforced(map, turn + 1) : map.tiles[i].units + 1 >= U16

\* A move a player can make would run `dst.units += self.units - 1` of
\* Tile::attack past the 16 bits.
TransferOverflows ==
    \E mv \in OwnMoves :
        LET r == Map_perform_move(map, mv)
        IN  /\ r.err = "Ok"
            /\ map.tiles[r.dst].owner = mv.player
            /\ map.tiles[r.dst].units + moved_units(map.tiles[mv.from]) >= U16

\* The turn in a build without overflow checks: the addition wraps around.
LongTurn ==
    /\ last.op # "panic"
    /\ turn < LongMaxTurn
    /\ SetGame(incr_turn(TheGame))
    /\ last' = NoCall("incr_turn")
    /\ UNCHANGED rvars

\* The turn in a build with overflow checks: the addition panics and the
\* thread of the game unwinds.
LongPanic ==
    /\ last.op # "panic"
    /\ turn < LongMaxTurn
    /\ IncrOverflows
    /\ last' = NoCall("panic")
    /\ UNCHANGED gvars
    /\ UNCHANGED rvars

LongNext == LongTurn \/ LongPanic

LongSpec == CampaignInit /\ [][LongNext]_vars

\* C39: the 16-bit unit counter of a tile never overflows: no state is
\* reached in which the next reinforcement, or a transfer between two tiles
\* of one owner, would give a tile more than 65535 units.
C39_UnitsNeverOverflow == ~IncrOverflows /\ ~TransferOverflows

\* ------------------------------------------------ the neighbours of a Grid
\* A Grid of any size up to the bounds, on which the neighbour functions are
\* called with any index, in the grid or past its end.

GridMaxWidth == 3
GridMaxHeight == 4

\* What is recorded of a call on the Grid: the function, the index it was
\* given and what it returned.
GridCall(op, i, res) == [op |-> op, from |-> i, res |-> res]

GridInit ==
    /\ \E w \in 0 .. GridMaxWidth, h \in 0 .. GridMaxHeight :
          map = [width |-> w, height |-> h,
                 tiles |-> [i \in 0 .. (w * h - 1) |-> Tile_new]]
    /\ players = <<>>
    /\ turn = 0
    /\ last = GridCall("new", NoIndex, NoIndex)
    /\ NoRunner

\* The eight functions that return an Option<usize>.
Neighbor(op, g, i) ==
    CASE op = "up_left" -> up_left(g, i)
      [] op = "up" -> up(g, i)
      [] op = "up_right" -> up_right(g, i)
      [] op = "left" -> left(g, i)
      [] op = "right" -> right(g, i)
      [] op = "down_left" -> down_left(g, i)
      [] op = "down" -> down(g, i)
      [] op = "down_right" -> down_right(g, i)

\* The eight functions in the order of the array of extended_neighbors.
NeighborOps ==
    <<"up_left", "up", "up_right", "left", "right", "down_left", "down",
      "down_right">>

GridNeighbor(op, i) ==
    /\ last' = GridCall(op, i, Neighbor(op, map, i))
    /\ UNCHANGED gvars
    /\ UNCHANGED rvars

GridDirectNeighbors(i) ==
    /\ last' = GridCall("direct_neighbors", i, direct_neighbors(map, i))
    /\ UNCHANGED gvars
    /\ UNCHANGED rvars

GridExtendedNeighbors(i) ==
    /\ last' = GridCall("extended_neighbors", i, extended_neighbors(map, i))
    /\ UNCHANGED gvars
    /\ UNCHANGED rvars

GridNext ==
    \/ \E op \in Range(NeighborOps), i \in 0 .. (len(map) + 1) :
          GridNeighbor(op, i)
    \/ \E i \in 0 .. (len(map) + 1) : GridDirectNeighbors(i)
    \/ \E i \in 0 .. (len(map) + 1) : GridExtendedNeighbors(i)

GridSpec == GridInit /\ [][GridNext]_vars

\* The index dc columns and dl lines away from i, when i and that place are
\* in the grid.
Step(g, i, dc, dl) ==
    IF i < 0 \/ i >= g.width * g.height THEN NoIndex
    ELSE LET c == (i % g.width) + dc
             l == (i \div g.width) + dl
         IN  IF c < 0 \/ c >= g.width \/ l < 0 \/ l >= g.height THEN NoIndex
             ELSE i + dc + dl * g.width

\* The step each function stands for.
StepOf(op) ==
    CASE op = "up_left" -> <<-1, -1>>
      [] op = "up" -> <<0, -1>>
      [] op = "up_right" -> <<1, -1>>
      [] op = "left" -> <<-1, 0>>
      [] op = "right" -> <<1, 0>>
      [] op = "down_left" -> <<-1, 1>>
      [] op = "down" -> <<0, 1>>
      [] op = "down_right" -> <<1, 1>>

\* The sequence res lists, without repeating one, the neighbours of i that
\* exist among the functions ops, in the order of ops.
ListsInOrder(res, ops, g, i) ==
    /\ Range(res) = {Neighbor(ops[k], g, i) : k \in 1 .. Len(ops)} \ {NoIndex}
    /\ \A a, b \in 1 .. Len(res) :
          a < b => \E ka, kb \in 1 .. Len(ops) :
                      /\ ka < kb
                      /\ res[a] = Neighbor(ops[ka], g, i)
                      /\ res[b] = Neighbor(ops[kb], g, i)

\* C40: on a grid of any size and for any index i, each neighbour function
\* returns None exactly when i is out of range or on the edge of its
\* direction, and else the index one step away; direct_neighbors lists the
\* existing neighbours in the order Up, Left, Right, Down and
\* extended_neighbors in the order UL, U, UR, L, R, DL, D, DR; up and down,
\* and left and right, are inverse of each other.
C40_NeighbourFunctions ==
    /\ last.op \in Range(NeighborOps)
          => last.res = Step(map, last.from, StepOf(last.op)[1],
                             StepOf(last.op)[2])
    /\ last.op = "direct_neighbors"
          => ListsInOrder(last.res, <<"up", "left", "right", "down">>,
                          map, last.from)
    /\ last.op = "extended_neighbors"
          => ListsInOrder(last.res, NeighborOps, map, last.from)
    /\ \A i \in 0 .. (len(map) + 1) :
          /\ \A op \in Range(NeighborOps) :
                Neighbor(op, map, i)
                    = Step(map, i, StepOf(op)[1], StepOf(op)[2])
          /\ up(map, i) # NoIndex => down(map, up(map, i)) = i
          /\ down(map, i) # NoIndex => up(map, down(map, i)) = i
          /\ left(map, i) # NoIndex => right(map, left(map, i)) = i
          /\ right(map, i) # NoIndex => left(map, right(map, i)) = i

\* extended_neighbors was called on the tile 7 of the grid of 3 columns and
\* 4 lines and returned its eight neighbours in the order of the test.
C40_Witness ==
    /\ map.width = 3
    /\ map.height = 4
    /\ last.op = "extended_neighbors"
    /\ last.from = 7
    /\ last.res = <<3, 4, 5, 6, 8, 9, 10, 11>>
    /\ direct_neighbors(map, 0) = <<1, 3>>
    /\ right(map, 2) = NoIndex

====
